---- MODULE Spec2Model ----
(***************************************************************************)
(* State-machine model of the speech session engine (SpeechImpl) of        *)
(* jni/speech/src/speech/speech_impl.cc: the public calls, the sender task  *)
(* (send_reqs), the receiver task (gen_results) and poll.                   *)
(*                                                                         *)
(* The request queue, the response queue and the operation controller are  *)
(* used by speech_impl.cc but defined in headers that are not part of the  *)
(* sources at hand; they are modelled from sections 4.1 - 4.3 of the       *)
(* specification (ReqQ*, RespQ*, Ctl* below).                              *)
(***************************************************************************)
EXTENDS Integers, Sequences, FiniteSets, TLC

\* ------------------------------------------------------------------ bounds
\* ids one engine life may allocate
MaxId == 2
\* put_voice chunks accepted in one engine life
MaxChunks == 2
\* non-finish server responses in one engine life
MaxInter == 1
\* prepare() calls in one run
MaxPrepare == 2
\* transport failures (a failed send, a failed recv, a deadline that passes) in
\* one engine life
MaxFaults == 1
\* cancel() calls in one engine life
MaxCancels == 2
\* responses of the server for a session it has answered to the end already, in
\* one engine life
MaxLate == 1
\* events the front-end delivers to the dispatcher
MaxEvents == 3
\* calls of network_state_change
MaxNetwork == 2
\* ids allocated in a run of the single-session specification
SoloIds == 1
\* put_voice chunks in a run of the two-session specification
PairChunks == 1
\* transport failures, cancel() calls and non-finish responses, together, in a
\* run of the two-session specification
PairEvents == 1
\* put_voice chunks in one engine life of the life-cycle specification
LifeChunks == 1

Ids == 1..MaxId

\* ------------------------------------------------------- program constants
\* pop codes of the stream queues (indexes of _tps in poptype_to_restype and
\* sqtype_to_reqtype); a negative code means that nothing was popped
POP_TYPE_EMPTY == -1
POP_TYPE_DRAINED == -2
POP_TYPE_DATA == 0
POP_TYPE_START == 1
POP_TYPE_END == 2
POP_TYPE_REMOVED == 3
POP_TYPE_ERROR == 4

\* server result codes the model's transport may deliver (0 is SUCCESS)
ResultCodes == {0, 2, 7}

NoOp == [id |-> 0, status |-> "NONE", error |-> "SPEECH_SUCCESS", timer |-> "inf"]
NoInfo == [id |-> 0, type |-> "NONE", chunk |-> 0]

\* ------------------------------------------------------------ pure helpers
RECURSIVE SelectSeqIdx(_, _, _)
\* index of the first element of s, from position i on, whose id is id (0: none)
SelectSeqIdx(s, i, id) ==
    IF i > Len(s) THEN 0
    ELSE IF s[i].id = id THEN i
    ELSE SelectSeqIdx(s, i + 1, id)

HasId(s, id) == \E i \in 1..Len(s) : s[i].id = id

WithoutId(s, id) == SelectSeq(s, LAMBDA e : e.id # id)

\* s with every entry of id dropped and mark put where the first of them was
ReplaceByMark(s, id, mark) ==
    LET k == SelectSeqIdx(s, 1, id)
        before == SubSeq(s, 1, k - 1)
        after == SubSeq(s, k + 1, Len(s))
    IN  IF k = 0 THEN s
        ELSE WithoutId(before, id) \o <<mark>> \o WithoutId(after, id)

\* static SpeechResultType poptype_to_restype(int32_t type)
poptype_to_restype(type) ==
    CASE type = 0 -> "INTER"
      [] type = 1 -> "START"
      [] type = 2 -> "END"
      [] type = 3 -> "CANCELLED"
      [] type = 4 -> "ERROR"

\* integer_to_reserr with the cases of its switch missing
integer_to_reserr_NoCases(err) ==
    IF err = 0 THEN "SPEECH_SUCCESS" ELSE "SPEECH_UNKNOWN"

\* static SpeechError integer_to_reserr(uint32_t err)
integer_to_reserr(err) ==
    CASE err = 0 -> "SPEECH_SUCCESS"
      [] err = 2 -> "SPEECH_UNAUTHENTICATED"
      [] err = 3 -> "SPEECH_CONNECTION_EXCEED"
      [] err = 4 -> "SPEECH_SERVER_RESOURCE_EXHASTED"
      [] err = 5 -> "SPEECH_SERVER_BUSY"
      [] err = 6 -> "SPEECH_SERVER_INTERNAL"
      [] err = 101 -> "SPEECH_SERVICE_UNAVAILABLE"
      [] err = 102 -> "SPEECH_SDK_CLOSED"
      [] OTHER -> "SPEECH_UNKNOWN"

\* static SpeechReqType sqtype_to_reqtype(int32_t type)
sqtype_to_reqtype(type) ==
    CASE type = 0 -> "VOICE_DATA"
      [] type = 1 -> "VOICE_START"
      [] type = 2 -> "VOICE_END"
      [] type = 3 -> "CANCELLED"

\* res.type >= SPEECH_RES_END
IsTerminalType(t) == t \in {"END", "CANCELLED", "ERROR"}

\* --------------------------------------------- RequestStreamQueue (sec. 4.1)
\* a queue value: q the entries in enqueue order, ids the admitted ids, ended
\* the admitted ids closed to further data, closed the close() flag
ReqQEmpty == [q |-> <<>>, ids |-> {}, ended |-> {}, closed |-> FALSE]

ReqQCanStart(rq, id) == ~rq.closed /\ id \notin rq.ids
ReqQStart(rq, id) ==
    [rq EXCEPT !.q = Append(@, [id |-> id, t |-> POP_TYPE_START, chunk |-> 0]),
               !.ids = @ \cup {id}]

ReqQCanStream(rq, id) == id \in rq.ids /\ id \notin rq.ended
ReqQStream(rq, id, c) ==
    [rq EXCEPT !.q = Append(@, [id |-> id, t |-> POP_TYPE_DATA, chunk |-> c])]

ReqQCanEnd(rq, id) == id \in rq.ids /\ id \notin rq.ended
ReqQEnd(rq, id) ==
    [rq EXCEPT !.q = Append(@, [id |-> id, t |-> POP_TYPE_END, chunk |-> 0]),
               !.ended = @ \cup {id}]

\* erase(id) returns whether entries of an admitted id remained
ReqQEraseFound(rq, id) ==
    id \in rq.ids /\ \E i \in 1..Len(rq.q) : rq.q[i].id = id
ReqQErase(rq, id) ==
    [rq EXCEPT !.q = ReplaceByMark(@, id, [id |-> id, t |-> POP_TYPE_REMOVED, chunk |-> 0]),
               !.ids = @ \ {id},
               !.ended = @ \ {id}]

RECURSIVE ReqQEraseAll(_, _)
ReqQEraseAll(rq, S) ==
    IF S = {} THEN rq
    ELSE LET id == CHOOSE x \in S : \A y \in S : x <= y
         IN  ReqQEraseAll(ReqQErase(rq, id), S \ {id})
\* clear(&min_id, NULL)
ReqQClear(rq) == ReqQEraseAll(rq, rq.ids)
ReqQClearMinId(rq) ==
    LET S == {id \in rq.ids : ReqQEraseFound(rq, id)}
    IN  IF S = {} THEN 0 ELSE CHOOSE x \in S : \A y \in S : x <= y

ReqQClose(rq) == [q |-> <<>>, ids |-> {}, ended |-> {}, closed |-> TRUE]

\* pop(id, item, err): the code returned, the entry, and the queue left
ReqQPopType(rq) ==
    IF rq.closed THEN POP_TYPE_DRAINED
    ELSE IF rq.q = <<>> THEN POP_TYPE_EMPTY
    ELSE Head(rq.q).t
ReqQPopRest(rq) ==
    IF ReqQPopType(rq) < 0 THEN rq
    ELSE LET e == Head(rq.q)
             forget == e.t \in {POP_TYPE_END, POP_TYPE_REMOVED}
         IN  [rq EXCEPT !.q = Tail(@),
                        !.ids = IF forget THEN @ \ {e.id} ELSE @,
                        !.ended = IF forget THEN @ \ {e.id} ELSE @]

\* -------------------------------------------- ResponseStreamQueue (sec. 4.2)
RespQEmpty == [q |-> <<>>, ids |-> {}, closed |-> FALSE]

RespQStart(sq, id) ==
    IF sq.closed \/ id \in sq.ids THEN sq
    ELSE [sq EXCEPT !.q = Append(@, [id |-> id, t |-> POP_TYPE_START, err |-> 0]),
                    !.ids = @ \cup {id}]

RespQStream(sq, id) ==
    IF id \notin sq.ids THEN sq
    ELSE [sq EXCEPT !.q = Append(@, [id |-> id, t |-> POP_TYPE_DATA, err |-> 0])]

RespQEnd(sq, id) ==
    IF id \notin sq.ids THEN sq
    ELSE [sq EXCEPT !.q = Append(@, [id |-> id, t |-> POP_TYPE_END, err |-> 0])]

\* erase(id, errcode): the id is marked, its buffered bodies are dropped; the
\* mark pops as END for errcode 0 and as ERROR carrying errcode otherwise
RespQEraseFound(sq, id) == id \in sq.ids
RespQErase(sq, id, err) ==
    LET mark == [id |-> id,
                 t |-> IF err = 0 THEN POP_TYPE_END ELSE POP_TYPE_ERROR,
                 err |-> err]
    IN  IF id \notin sq.ids THEN sq
        ELSE [sq EXCEPT !.q = IF HasId(@, id) THEN ReplaceByMark(@, id, mark)
                              ELSE Append(@, mark)]

RespQClose(sq) == [q |-> <<>>, ids |-> {}, closed |-> TRUE]

RespQPopType(sq) ==
    IF sq.closed \/ sq.q = <<>> THEN POP_TYPE_EMPTY ELSE Head(sq.q).t
RespQPopRest(sq) ==
    IF RespQPopType(sq) < 0 THEN sq
    ELSE LET e == Head(sq.q)
             forget == e.t \in {POP_TYPE_END, POP_TYPE_ERROR}
         IN  [sq EXCEPT !.q = Tail(@),
                        !.ids = IF forget THEN @ \ {e.id} ELSE @]

\* ---------------------------------------------- OperationController (4.3)
\* "Transitions out of END/CANCELLED/ERROR are only remove_front_op": the status
\* of an operation changes only while this holds
CtlLive(o) == o.id # 0 /\ o.status \in {"START", "STREAMING"}
\* new_op(id, status)
CtlNewOp(id, status) ==
    [id |-> id, status |-> status, error |-> "SPEECH_SUCCESS", timer |-> "inf"]
\* set_op_error(err)
CtlSetOpError(o, err) ==
    IF CtlLive(o) THEN [o EXCEPT !.status = "ERROR", !.error = err] ELSE o
\* cancel_op(id, cond)
CtlCancelOp(o, id) ==
    IF CtlLive(o) /\ (id = 0 \/ id = o.id) THEN [o EXCEPT !.status = "CANCELLED"] ELSE o
\* finish_op()
CtlFinishOp(o) == IF CtlLive(o) THEN [o EXCEPT !.status = "END"] ELSE o
\* refresh_op_time()
CtlRefreshOpTime(o) == IF o.id = 0 THEN o ELSE [o EXCEPT !.timer = "running"]
\* wait_op_finish(id, lock) blocks while this holds
CtlMustWait(o, id) == o.id = id /\ o.status \in {"START", "STREAMING"}


\* ------------------------------------------------------------------- state
VARIABLES
    initialized,   \* SpeechImpl::initialized_
    next_id_,      \* SpeechImpl::next_id_
    conn,          \* connection_: "open" after initialize, "closed" after release
    voice_reqs,    \* SpeechImpl::voice_reqs_
    text_reqs,     \* SpeechImpl::text_reqs_ : entries [id, type]
    op,            \* the operation held by controller_ (NoOp: none)
    responses,     \* SpeechImpl::responses_
    senderPc,      \* send_reqs: "idle" (loop top / req_cond wait), "request"
                   \* (before do_request), "wait" (wait_op_finish), "done"
    info,          \* the request send_reqs holds (NoInfo when it holds none)
    receiverPc,    \* gen_results: "top", "recv_inf", "recv_fin", "exit"
    releasePc,     \* release: "none", "join_req", "join_resp"
    putTextPc,     \* a put_text past its initialized_ test: the id it drew, else 0
    assertFailed,  \* the assert() conditions found false so far
    budget,        \* calls and events so far: [prepares, chunks, inters, faults, cancels,
                   \* lates]
    srv,           \* the server's view of each id: "idle", "open", "done"
    issued,        \* the ids put_text and start_voice returned so far, over all
                   \* engine lives
    kind,          \* per id, the call that returned it: "none", "text", "voice"
    hist,          \* per id, the results poll returned, in order
    sent,          \* per id, the messages handed to connection_.send, in order
    nput,          \* per id, the chunks put_voice enqueued
    cancelEarly,   \* ids cancel(id) was called for before a terminal result
    cancelQueued,  \* per id, Len(sent[id]) at the cancel(id) that found the id in
                   \* voice_reqs_ or text_reqs_ (-1: no such call)
    cancelLate,    \* per id, Len(hist[id]) at a cancel(id) issued after its
                   \* terminal result was returned (-1: no such call)
    cancelMass,    \* per id, once a cancel(0) found requests of the id in
                   \* voice_reqs_: the messages of the id sent before the call, the
                   \* one send_reqs held at the call included (-1: no such call)
    massOp,        \* the operation the last cancel(0) found START or STREAMING:
                   \* [id, n] with n = Len(hist[id]) at the call (id 0: none)
    errCode,       \* per id, the result code of the non-SUCCESS response that
                   \* gen_result_by_resp took for it (0: none)
    held,          \* per thread, the mutexes it holds, in the order it locked them
    at,            \* per thread, where it is in its code: [call, pc]
    constructed,   \* VoiceService::VoiceService() has run
    cloud_vad,     \* _voice_config->cloud_vad_enable()
    session_id,    \* VoiceService::session_id (-1: none)
    asr_finished,  \* VoiceService::asr_finished
    mCurrentSpeechState, \* "RELEASED", "PREPARED"
    networkPc,     \* network_state_change(false): "none", "released" (past
                   \* _speech->release(), before line 96)
    speech,        \* the engine as VoiceService sees it: [initialized, last, live,
                   \* started, polling, changes]: last id start_voice returned, ids
                   \* whose terminal result poll has yet to return, those of them
                   \* whose START result poll has returned, whether a response
                   \* thread is polling, network_state_change calls so far
    events,        \* VoiceService::_events
    onEventPc,     \* onEvent: "wait", "switch", "put_voice", "end_voice", "cancel"
    event,         \* the event onEvent popped (NoEvent: none)
    tested,        \* the value of session_id onEvent read in the test of the case
    arrived,       \* how many events voice_event_callback has received; the
                   \* entries of _events carry their arrival number n
    handled,       \* how many events onEvent has popped
    calls,         \* the calls of the engine made by onEvent and the clearings of
                   \* an active session id, in order: [fn, id, event, tested]
    activation,    \* onResponse: the local string activation ("": empty)
    sr,            \* onResponse: the result poll returned last, [id, type, err,
                   \* extra]; extra is the "activation" field of sr.extra ("none":
                   \* sr.extra is empty or has no such field)
    callbacks,     \* the callbacks onResponse made for sr
    verdict        \* the activation the results of one session carried so far:
                   \* [id, activation], from the START result of the id or, without
                   \* one, from its first result

vars == <<initialized, next_id_, conn, voice_reqs, text_reqs, op, responses,
          senderPc, info, receiverPc, releasePc, putTextPc, assertFailed, budget,
          srv, issued, kind, hist, sent, nput, cancelEarly, cancelQueued,
          cancelLate, cancelMass, massOp, errCode, held, at,
          constructed, cloud_vad, session_id, asr_finished, mCurrentSpeechState,
          networkPc, speech, events, onEventPc, event, tested, arrived, handled,
          calls, activation, sr, callbacks, verdict>>

\* the engine and what was observed of its sessions
sessionVars == <<initialized, next_id_, conn, voice_reqs, text_reqs, op, responses,
                 senderPc, info, receiverPc, releasePc, putTextPc, assertFailed, budget,
                 srv, issued, kind, hist, sent, nput, cancelEarly, cancelQueued,
                 cancelLate, cancelMass, massOp, errCode>>
\* the threads and the two mutexes
lockVars == <<held, at>>
\* the VoiceService dispatcher (VoiceService.cpp)
serviceVars == <<constructed, cloud_vad, session_id, asr_finished, mCurrentSpeechState,
                 networkPc, speech, events, onEventPc, event, tested, arrived, handled,
                 calls, activation, sr, callbacks, verdict>>
\* the locals of onResponse and what it delivered
responseVars == <<activation, sr, callbacks, verdict>>
\* what a step of the engine leaves alone
otherVars == <<lockVars, serviceVars>>

engineVars == <<initialized, next_id_, conn, voice_reqs, text_reqs, op, responses>>
taskVars == <<senderPc, info, receiverPc, releasePc, putTextPc>>
cancelVars == <<cancelEarly, cancelQueued, cancelLate, cancelMass, massOp>>
ghostVars == <<issued, kind, hist, sent, nput, errCode>>

\* the threads of section 5: two threads of the client that make the public
\* calls, the thread that polls, and the two tasks of the engine
Callers == {"callerA", "callerB"}
Threads == Callers \cup {"poller", "send_reqs", "gen_results"}

HasTerminal(h) == \E i \in 1..Len(h) : IsTerminalType(h[i].type)

\* no event in the hands of onEvent
NoEvent == [event |-> "NONE", voice |-> FALSE, n |-> 0]
\* the engine before the first network_state_change
NoSpeech ==
    [initialized |-> FALSE, last |-> 0, live |-> {}, started |-> {}, polling |-> FALSE,
     changes |-> 0]
\* SpeechResult sr before the first poll
NoResult == [id |-> 0, type |-> "NONE", err |-> "SPEECH_SUCCESS", extra |-> "none"]

NoBudget ==
    [prepares |-> 0, chunks |-> 0, inters |-> 0, faults |-> 0, cancels |-> 0, lates |-> 0]

\* SpeechImpl::SpeechImpl() : initialized_(false)
Init ==
    /\ initialized = FALSE
    /\ next_id_ = 0
    /\ conn = "closed"
    /\ voice_reqs = ReqQEmpty
    /\ text_reqs = <<>>
    /\ op = NoOp
    /\ responses = RespQEmpty
    /\ senderPc = "done"
    /\ info = NoInfo
    /\ receiverPc = "exit"
    /\ releasePc = "none"
    /\ putTextPc = 0
    /\ assertFailed = {}
    /\ budget = NoBudget
    /\ srv = [i \in Ids |-> "idle"]
    /\ issued = {}
    /\ kind = [i \in Ids |-> "none"]
    /\ hist = [i \in Ids |-> <<>>]
    /\ sent = [i \in Ids |-> <<>>]
    /\ nput = [i \in Ids |-> 0]
    /\ cancelEarly = {}
    /\ cancelQueued = [i \in Ids |-> -1]
    /\ cancelLate = [i \in Ids |-> -1]
    /\ cancelMass = [i \in Ids |-> -1]
    /\ massOp = [id |-> 0, n |-> 0]
    /\ errCode = [i \in Ids |-> 0]
    /\ held = [t \in Threads |-> <<>>]
    /\ at = [t \in Threads |-> IF t \in {"send_reqs", "gen_results"}
                                THEN [call |-> t, pc |-> "top"]
                                ELSE [call |-> "none", pc |-> "idle"]]
    /\ constructed = FALSE
    /\ cloud_vad = FALSE
    /\ session_id = -1
    /\ asr_finished = FALSE
    /\ mCurrentSpeechState = "RELEASED"
    /\ networkPc = "none"
    /\ speech = NoSpeech
    /\ events = <<>>
    /\ onEventPc = "wait"
    /\ event = NoEvent
    /\ tested = -1
    /\ arrived = 0
    /\ handled = 0
    /\ calls = <<>>
    /\ activation = ""
    /\ sr = NoResult
    /\ callbacks = {}
    /\ verdict = [id |-> 0, activation |-> ""]

\* ------------------------------------------------------------ public calls
\* bool SpeechImpl::prepare(); the history of the sessions starts anew with
\* the engine life
Prepare ==
    /\ releasePc = "none"
    /\ ~initialized
    /\ budget.prepares < MaxPrepare
    /\ next_id_' = 0
    /\ conn' = "open"
    /\ initialized' = TRUE
    /\ senderPc' = "idle"
    /\ receiverPc' = "top"
    /\ budget' = [NoBudget EXCEPT !.prepares = budget.prepares + 1]
    /\ srv' = [i \in Ids |-> "idle"]
    /\ kind' = [i \in Ids |-> "none"]
    /\ hist' = [i \in Ids |-> <<>>]
    /\ sent' = [i \in Ids |-> <<>>]
    /\ nput' = [i \in Ids |-> 0]
    /\ cancelEarly' = {}
    /\ cancelQueued' = [i \in Ids |-> -1]
    /\ cancelLate' = [i \in Ids |-> -1]
    /\ cancelMass' = [i \in Ids |-> -1]
    /\ massOp' = [id |-> 0, n |-> 0]
    /\ errCode' = [i \in Ids |-> 0]
    /\ UNCHANGED <<voice_reqs, text_reqs, op, responses, info, releasePc, putTextPc,
                   assertFailed, issued>>

\* void SpeechImpl::release(), lines 33-41: up to req_thread_->join()
ReleaseBegin ==
    /\ releasePc = "none"
    /\ initialized
    /\ initialized' = FALSE
    /\ conn' = "closed"
    /\ voice_reqs' = ReqQClose(voice_reqs)
    /\ text_reqs' = <<>>
    /\ releasePc' = "join_req"
    /\ UNCHANGED <<next_id_, op, responses, senderPc, info, receiverPc, putTextPc>>
    /\ UNCHANGED <<assertFailed, budget, srv, ghostVars, cancelVars>>

\* release(), lines 42-50: req_thread_ joined, up to resp_thread_->join()
ReleaseJoinReq ==
    /\ releasePc = "join_req"
    /\ senderPc = "done"
    /\ responses' = RespQClose(responses)
    /\ op' = CtlFinishOp(op)
    /\ releasePc' = "join_resp"
    /\ UNCHANGED <<initialized, next_id_, conn, voice_reqs, text_reqs, senderPc, info,
                   receiverPc, putTextPc>>
    /\ UNCHANGED <<assertFailed, budget, srv, ghostVars, cancelVars>>

\* release(), lines 51-53: resp_thread_ joined, release returns
ReleaseJoinResp ==
    /\ releasePc = "join_resp"
    /\ receiverPc = "exit"
    /\ releasePc' = "none"
    /\ UNCHANGED <<engineVars, senderPc, info, receiverPc, putTextPc>>
    /\ UNCHANGED <<assertFailed, budget, srv, ghostVars, cancelVars>>

\* next_id(): the next session id
NextIdValue(n) == n + 1

\* int32_t SpeechImpl::put_text(text), lines 57-59: the unlocked test of
\* initialized_ and next_id(); a call on an engine not prepared returns -1
PutTextBegin ==
    /\ putTextPc = 0
    /\ initialized
    /\ next_id_ < MaxId
    /\ next_id_' = NextIdValue(next_id_)
    /\ putTextPc' = NextIdValue(next_id_)
    /\ UNCHANGED <<initialized, conn, voice_reqs, text_reqs, op, responses, senderPc,
                   info, receiverPc, releasePc>>
    /\ UNCHANGED <<assertFailed, budget, srv, ghostVars, cancelVars>>

\* put_text, lines 60-70: under req_mutex_, push the TEXT request, return id
PutTextEnqueue ==
    /\ putTextPc # 0
    /\ text_reqs' = Append(text_reqs, [id |-> putTextPc, type |-> "TEXT"])
    /\ kind' = [kind EXCEPT ![putTextPc] = "text"]
    /\ issued' = issued \cup {putTextPc}
    /\ putTextPc' = 0
    /\ UNCHANGED <<initialized, next_id_, conn, voice_reqs, op, responses, senderPc,
                   info, receiverPc, releasePc>>
    /\ UNCHANGED <<assertFailed, budget, srv, cancelVars, hist, sent, nput, errCode>>

\* int32_t SpeechImpl::start_voice(framework_options, skill_options)
StartVoice ==
    /\ initialized
    /\ next_id_ < MaxId
    /\ LET id == NextIdValue(next_id_)
       IN  /\ next_id_' = id
           /\ IF ReqQCanStart(voice_reqs, id)
              THEN /\ voice_reqs' = ReqQStart(voice_reqs, id)
                   /\ kind' = [kind EXCEPT ![id] = "voice"]
                   /\ issued' = issued \cup {id}
              ELSE UNCHANGED <<voice_reqs, kind, issued>>
    /\ UNCHANGED <<initialized, conn, text_reqs, op, responses>>
    /\ UNCHANGED <<taskVars, assertFailed, budget, srv, cancelVars, hist, sent, nput, errCode>>

\* void SpeechImpl::put_voice(id, voice, length)
PutVoice(id) ==
    /\ initialized
    /\ id > 0
    /\ budget.chunks < MaxChunks
    /\ ReqQCanStream(voice_reqs, id)
    /\ voice_reqs' = ReqQStream(voice_reqs, id, nput[id] + 1)
    /\ nput' = [nput EXCEPT ![id] = @ + 1]
    /\ budget' = [budget EXCEPT !.chunks = @ + 1]
    /\ UNCHANGED <<initialized, next_id_, conn, text_reqs, op, responses>>
    /\ UNCHANGED <<taskVars, assertFailed, srv, cancelVars, issued, kind, hist, sent, errCode>>

\* void SpeechImpl::end_voice(id)
EndVoice(id) ==
    /\ initialized
    /\ id > 0
    /\ ReqQCanEnd(voice_reqs, id)
    /\ voice_reqs' = ReqQEnd(voice_reqs, id)
    /\ UNCHANGED <<initialized, next_id_, conn, text_reqs, op, responses>>
    /\ UNCHANGED <<taskVars, assertFailed, budget, srv, cancelVars, ghostVars>>

\* text_reqs_ with the first request of id marked CANCELLED (lines 132-137)
MarkTextCancelled(reqs, id) ==
    LET k == SelectSeqIdx(reqs, 1, id)
    IN  [i \in 1..Len(reqs) |-> IF i = k THEN [reqs[i] EXCEPT !.type = "CANCELLED"]
                                 ELSE reqs[i]]

\* void SpeechImpl::cancel(id), id > 0 (lines 126-139)
CancelOne(id) ==
    /\ initialized
    /\ id > 0
    /\ budget.cancels < MaxCancels
    /\ budget' = [budget EXCEPT !.cancels = @ + 1]
    /\ voice_reqs' = ReqQErase(voice_reqs, id)
    /\ IF ReqQEraseFound(voice_reqs, id)
       THEN UNCHANGED <<text_reqs, op>>
       ELSE IF HasId(text_reqs, id)
            THEN /\ text_reqs' = MarkTextCancelled(text_reqs, id)
                 /\ UNCHANGED op
            ELSE /\ op' = CtlCancelOp(op, id)
                 /\ UNCHANGED text_reqs
    /\ cancelQueued' = IF (ReqQEraseFound(voice_reqs, id) \/ HasId(text_reqs, id))
                          /\ cancelQueued[id] = -1
                       THEN [cancelQueued EXCEPT ![id] = Len(sent[id])] ELSE cancelQueued
    /\ cancelEarly' = IF kind[id] # "none" /\ ~HasTerminal(hist[id])
                      THEN cancelEarly \cup {id} ELSE cancelEarly
    /\ cancelLate' = IF HasTerminal(hist[id]) /\ cancelLate[id] = -1
                     THEN [cancelLate EXCEPT ![id] = Len(hist[id])] ELSE cancelLate
    /\ UNCHANGED <<initialized, next_id_, conn, responses>>
    /\ UNCHANGED <<taskVars, assertFailed, srv, ghostVars, cancelMass, massOp>>

\* void SpeechImpl::cancel(id), id <= 0 (lines 140-151)
CancelAll ==
    /\ initialized
    /\ budget.cancels < MaxCancels
    /\ budget' = [budget EXCEPT !.cancels = @ + 1]
    /\ voice_reqs' = ReqQClear(voice_reqs)
    /\ text_reqs' = [i \in 1..Len(text_reqs) |-> [text_reqs[i] EXCEPT !.type = "CANCELLED"]]
    /\ op' = CtlCancelOp(op, 0)
    /\ cancelMass' = [i \in Ids |->
                        IF \E k \in 1..Len(voice_reqs.q) :
                              voice_reqs.q[k].id = i /\ voice_reqs.q[k].t # POP_TYPE_REMOVED
                        THEN Len(sent[i]) + (IF info.id = i THEN 1 ELSE 0)
                        ELSE cancelMass[i]]
    /\ massOp' = IF CtlLive(op) THEN [id |-> op.id, n |-> Len(hist[op.id])] ELSE massOp
    /\ UNCHANGED <<initialized, next_id_, conn, responses>>
    /\ UNCHANGED <<taskVars, assertFailed, srv, ghostVars, cancelEarly, cancelQueued,
                   cancelLate>>

\* ------------------------------------------------------------- sender task
\* bool SpeechImpl::do_ctl_change_op(req): the value returned
DoCtlChangeOpResult(req, o) ==
    IF req.type \in {"TEXT", "VOICE_START"} THEN TRUE
    ELSE o.id # 0

\* do_ctl_change_op(req): the operation the controller holds afterwards
DoCtlChangeOpNext(req, o) ==
    IF req.type \in {"TEXT", "VOICE_START"} THEN CtlNewOp(req.id, "START")
    ELSE IF o.id # 0
         THEN IF req.type \in {"VOICE_END", "VOICE_DATA"} THEN o
              ELSE [o EXCEPT !.status = "CANCELLED"]
    ELSE IF req.type = "CANCELLED" THEN CtlNewOp(req.id, "CANCELLED")
    ELSE o

\* do_ctl_change_op(req), line 325: assert(op.get() == NULL)
DoCtlChangeOpAsserts(req, o) ==
    IF req.type \in {"TEXT", "VOICE_START"} /\ o.id # 0 THEN {"new_op"} ELSE {}

\* send_reqs taking a request whose info->data still holds the chunk popped
\* before it
SendReqsTake_StaleData(rq, treqs) ==
    IF ReqQPopType(rq) >= 0
    THEN [id |-> Head(rq.q).id, type |-> sqtype_to_reqtype(ReqQPopType(rq)),
          chunk |-> IF Head(rq.q).chunk > 1 THEN Head(rq.q).chunk - 1 ELSE Head(rq.q).chunk]
    ELSE IF treqs # <<>>
    THEN [id |-> Head(treqs).id, type |-> Head(treqs).type, chunk |-> 0]
    ELSE NoInfo

\* the request send_reqs takes at lines 288-297 (NoInfo: none, it waits)
SendReqsTake(rq, treqs) ==
    IF ReqQPopType(rq) >= 0
    THEN [id |-> Head(rq.q).id, type |-> sqtype_to_reqtype(ReqQPopType(rq)),
          chunk |-> Head(rq.q).chunk]
    ELSE IF treqs # <<>>
    THEN [id |-> Head(treqs).id, type |-> Head(treqs).type, chunk |-> 0]
    ELSE NoInfo

\* send_reqs, lines 285-304: take a request and do_ctl_change_op under req_mutex_
SenderPop ==
    /\ senderPc = "idle"
    /\ initialized
    /\ LET req == SendReqsTake(voice_reqs, text_reqs)
       IN  /\ req # NoInfo
           /\ IF ReqQPopType(voice_reqs) >= 0
              THEN voice_reqs' = ReqQPopRest(voice_reqs) /\ UNCHANGED text_reqs
              ELSE text_reqs' = Tail(text_reqs) /\ UNCHANGED voice_reqs
           /\ assertFailed' = assertFailed \cup DoCtlChangeOpAsserts(req, op)
           /\ op' = DoCtlChangeOpNext(req, op)
           /\ senderPc' = IF DoCtlChangeOpResult(req, op) THEN "request" ELSE "idle"
           /\ info' = IF DoCtlChangeOpResult(req, op) THEN req ELSE NoInfo
    /\ UNCHANGED <<initialized, next_id_, conn, responses, receiverPc, releasePc, putTextPc>>
    /\ UNCHANGED <<budget, srv, ghostVars, cancelVars>>

\* send_reqs, lines 286-287: initialized_ is false, the task quits
SenderExit ==
    /\ senderPc = "idle"
    /\ ~initialized
    /\ senderPc' = "done"
    /\ UNCHANGED <<engineVars, info, receiverPc, releasePc, putTextPc>>
    /\ UNCHANGED <<assertFailed, budget, srv, ghostVars, cancelVars>>

\* do_request: rv for the request type (0: the last message of the request)
DoRequestRv(type) == IF type \in {"TEXT", "VOICE_END"} THEN 0 ELSE 1

\* do_request: the wire type of the message built at lines 378-425
DoRequestWireType(type) ==
    CASE type = "TEXT" -> "TEXT"
      [] type = "VOICE_START" -> "START"
      [] type = "VOICE_END" -> "END"
      [] type = "CANCELLED" -> "END"
      [] type = "VOICE_DATA" -> "VOICE"

\* send_reqs going back to the top of its loop whatever do_request returned
SendReqsAfter_NoWait(rv) == "idle"

\* the pc of send_reqs after do_request returned rv (lines 306-313)
SendReqsAfter(rv) == IF rv = 0 THEN "wait" ELSE "idle"

\* int32_t SpeechImpl::do_request(req): connection_.send succeeds
SenderRequestOk ==
    /\ senderPc = "request"
    /\ conn = "open"
    /\ sent' = [sent EXCEPT ![info.id] =
                  Append(@, [type |-> DoRequestWireType(info.type), chunk |-> info.chunk])]
    /\ op' = IF DoRequestRv(info.type) = 0 THEN CtlRefreshOpTime(op) ELSE op
    /\ senderPc' = SendReqsAfter(DoRequestRv(info.type))
    /\ info' = IF DoRequestRv(info.type) = 0 THEN info ELSE NoInfo
    /\ srv' = IF info.type \in {"TEXT", "VOICE_START"} /\ srv[info.id] = "idle"
              THEN [srv EXCEPT ![info.id] = "open"] ELSE srv
    /\ UNCHANGED <<initialized, next_id_, conn, voice_reqs, text_reqs, responses,
                   receiverPc, releasePc, putTextPc>>
    /\ UNCHANGED <<assertFailed, budget, cancelVars, issued, kind, hist, nput, errCode>>

\* do_request, lines 428-437: the error set for a failed connection_.send
DoRequestSendError(r) ==
    IF r = "CONNECTION_NOT_AVAILABLE" THEN "SPEECH_SERVICE_UNAVAILABLE"
    ELSE "SPEECH_UNKNOWN"

\* do_request: connection_.send fails with r
SenderRequestFail(r) ==
    /\ senderPc = "request"
    /\ conn = "closed" \/ budget.faults < MaxFaults
    /\ budget' = IF conn = "closed" THEN budget ELSE [budget EXCEPT !.faults = @ + 1]
    /\ sent' = [sent EXCEPT ![info.id] =
                  Append(@, [type |-> DoRequestWireType(info.type), chunk |-> info.chunk])]
    /\ op' = CtlSetOpError(op, DoRequestSendError(r))
    /\ senderPc' = SendReqsAfter(-1)
    /\ info' = NoInfo
    /\ UNCHANGED <<initialized, next_id_, conn, voice_reqs, text_reqs, responses,
                   receiverPc, releasePc, putTextPc>>
    /\ UNCHANGED <<assertFailed, srv, cancelVars, issued, kind, hist, nput, errCode>>

\* send_reqs, lines 310-311: wait_op_finish(info->id) returns
SenderWaitDone ==
    /\ senderPc = "wait"
    /\ ~CtlMustWait(op, info.id)
    /\ senderPc' = "idle"
    /\ info' = NoInfo
    /\ UNCHANGED <<engineVars, receiverPc, releasePc, putTextPc>>
    /\ UNCHANGED <<assertFailed, budget, srv, ghostVars, cancelVars>>

\* ----------------------------------------------------------- receiver task
\* op_timeout(): finite once refresh_op_time was called for the operation
CtlOpTimeoutFinite(o) == o.id # 0 /\ o.timer # "inf"
\* op_timeout() == 0
CtlOpTimedOut(o) == o.id # 0 /\ o.timer = "expired"

\* the operation's deadline passes with no response of the server: op_timeout()
\* reaches 0 (counted with the transport failures)
Tick ==
    /\ op.id # 0 /\ op.timer = "running"
    /\ budget.faults < MaxFaults
    /\ budget' = [budget EXCEPT !.faults = @ + 1]
    /\ op' = [op EXCEPT !.timer = "expired"]
    /\ UNCHANGED <<initialized, next_id_, conn, voice_reqs, text_reqs, responses>>
    /\ UNCHANGED <<taskVars, assertFailed, srv, ghostVars, cancelVars>>

\* gen_results, lines 456-463: read op_timeout() and enter connection_.recv
ReceiverBegin ==
    /\ receiverPc = "top"
    /\ receiverPc' = IF CtlOpTimeoutFinite(op) THEN "recv_fin" ELSE "recv_inf"
    /\ UNCHANGED <<engineVars, senderPc, info, releasePc, putTextPc>>
    /\ UNCHANGED <<assertFailed, budget, srv, ghostVars, cancelVars>>

\* void SpeechImpl::gen_result_by_resp(resp): whether the response is taken
GenResultAccepts(o, rid) ==
    o.id # 0 /\ o.id = rid /\ o.status # "CANCELLED" /\ o.status # "ERROR"

\* gen_result_by_resp: the response queue afterwards
GenResultResponses(sq, o, rid, code, finish) ==
    LET started == IF o.status = "START" THEN RespQStart(sq, rid) ELSE sq
    IN  IF ~GenResultAccepts(o, rid) THEN sq
        ELSE IF code = 0
             THEN IF finish THEN RespQEnd(started, rid) ELSE RespQStream(started, rid)
        ELSE RespQErase(started, rid, code)

\* gen_result_by_resp: the operation afterwards
GenResultOp(o, rid, code, finish) ==
    LET streaming == IF o.status = "START" THEN [o EXCEPT !.status = "STREAMING"] ELSE o
    IN  IF ~GenResultAccepts(o, rid) THEN o
        ELSE IF code = 0
             THEN IF finish THEN CtlFinishOp([streaming EXCEPT !.status = "END"])
                  ELSE streaming
        ELSE CtlFinishOp(streaming)

\* gen_results, lines 463-468: recv returns SUCCESS with a response of the server
ReceiverResponse(rid, code, finish) ==
    /\ receiverPc \in {"recv_inf", "recv_fin"}
    /\ conn = "open"
    /\ srv[rid] = "open"
    /\ code # 0 => ~finish
    /\ (code = 0 /\ ~finish) => budget.inters < MaxInter
    /\ srv' = IF code # 0 \/ finish THEN [srv EXCEPT ![rid] = "done"] ELSE srv
    /\ budget' = IF code = 0 /\ ~finish THEN [budget EXCEPT !.inters = @ + 1] ELSE budget
    /\ responses' = GenResultResponses(responses, op, rid, code, finish)
    /\ op' = GenResultOp(op, rid, code, finish)
    /\ receiverPc' = "top"
    /\ errCode' = IF code # 0 /\ GenResultAccepts(op, rid)
                  THEN [errCode EXCEPT ![rid] = code] ELSE errCode
    /\ UNCHANGED <<initialized, next_id_, conn, voice_reqs, text_reqs, senderPc, info,
                   releasePc, putTextPc>>
    /\ UNCHANGED <<assertFailed, cancelVars, issued, kind, hist, sent, nput>>

\* gen_results, lines 463-468: recv returns SUCCESS with one more response of the
\* server for a session it has answered to the end (finish or an error code)
ReceiverLateResponse(rid, code, finish) ==
    /\ receiverPc \in {"recv_inf", "recv_fin"}
    /\ conn = "open"
    /\ srv[rid] = "done"
    /\ code # 0 => ~finish
    /\ budget.lates < MaxLate
    /\ budget' = [budget EXCEPT !.lates = @ + 1]
    /\ responses' = GenResultResponses(responses, op, rid, code, finish)
    /\ op' = GenResultOp(op, rid, code, finish)
    /\ receiverPc' = "top"
    /\ errCode' = IF code # 0 /\ GenResultAccepts(op, rid)
                  THEN [errCode EXCEPT ![rid] = code] ELSE errCode
    /\ UNCHANGED <<initialized, next_id_, conn, voice_reqs, text_reqs, senderPc, info,
                   releasePc, putTextPc>>
    /\ UNCHANGED <<assertFailed, srv, cancelVars, issued, kind, hist, sent, nput>>

\* gen_results, lines 469-475: recv returns TIMEOUT
ReceiverTimeout ==
    /\ receiverPc = "recv_fin"
    /\ conn = "open"
    /\ op' = IF CtlOpTimedOut(op) THEN CtlSetOpError(op, "SPEECH_TIMEOUT") ELSE op
    /\ receiverPc' = "top"
    /\ UNCHANGED <<initialized, next_id_, conn, voice_reqs, text_reqs, responses,
                   senderPc, info, releasePc, putTextPc>>
    /\ UNCHANGED <<assertFailed, budget, srv, ghostVars, cancelVars>>

\* gen_results, lines 476-482: the error set for a failed recv
GenResultsRecvError(r) ==
    IF r = "CONNECTION_BROKEN" THEN "SPEECH_SERVICE_UNAVAILABLE" ELSE "SPEECH_UNKNOWN"

\* gen_results: recv returns CONNECTION_BROKEN or another failure
ReceiverError(r) ==
    /\ receiverPc \in {"recv_inf", "recv_fin"}
    /\ conn = "open"
    /\ budget.faults < MaxFaults
    /\ budget' = [budget EXCEPT !.faults = @ + 1]
    /\ op' = CtlSetOpError(op, GenResultsRecvError(r))
    /\ receiverPc' = "top"
    /\ UNCHANGED <<initialized, next_id_, conn, voice_reqs, text_reqs, responses,
                   senderPc, info, releasePc, putTextPc>>
    /\ UNCHANGED <<assertFailed, srv, ghostVars, cancelVars>>

\* gen_results, lines 464-465: recv returns NOT_READY, the task quits
ReceiverExit ==
    /\ receiverPc \in {"recv_inf", "recv_fin"}
    /\ conn = "closed"
    /\ receiverPc' = "exit"
    /\ UNCHANGED <<engineVars, senderPc, info, releasePc, putTextPc>>
    /\ UNCHANGED <<assertFailed, budget, srv, ghostVars, cancelVars>>

\* -------------------------------------------------------------------- poll
\* poll, lines 210-213 and 222-225: the queue after erase(op->id) and the pop
PollDrain(sq, id) ==
    IF RespQEraseFound(sq, id) THEN RespQPopRest(RespQErase(sq, id, 0)) ELSE sq

\* poll, lines 212 and 224: assert(id == op->id) after the drain pop
PollDrainAsserts(sq, id) ==
    IF RespQEraseFound(sq, id) /\ RespQPopType(RespQErase(sq, id, 0)) >= 0
       /\ Head(RespQErase(sq, id, 0).q).id # id
    THEN {"drain_id"} ELSE {}

\* poll: a result can be returned (otherwise poll waits on resp_cond_)
PollReady(o, sq) ==
    /\ o.id # 0
    /\ o.status \in {"CANCELLED", "ERROR"} \/ RespQPopType(sq) # POP_TYPE_EMPTY

\* poll: the result returned, [id, type, err]
PollResult(o, sq) ==
    IF o.status = "CANCELLED"
    THEN [id |-> o.id, type |-> "CANCELLED", err |-> "SPEECH_SUCCESS"]
    ELSE IF o.status = "ERROR"
    THEN [id |-> o.id, type |-> "ERROR", err |-> o.error]
    ELSE [id |-> Head(sq.q).id, type |-> poptype_to_restype(RespQPopType(sq)),
          err |-> integer_to_reserr(Head(sq.q).err)]

\* poll: the operation held afterwards (remove_front_op for a terminal result)
PollOp(o, sq) == IF IsTerminalType(PollResult(o, sq).type) THEN NoOp ELSE o

\* poll: the response queue afterwards
PollResponses(o, sq) ==
    IF o.status \in {"CANCELLED", "ERROR"} THEN PollDrain(sq, o.id) ELSE RespQPopRest(sq)

\* poll, line 236: assert(id == op->id)
PollAsserts(o, sq) ==
    IF o.status \in {"CANCELLED", "ERROR"} THEN PollDrainAsserts(sq, o.id)
    ELSE IF Head(sq.q).id # o.id THEN {"pop_id"} ELSE {}

\* bool SpeechImpl::poll(res) returns true with a result
Poll ==
    /\ initialized
    /\ PollReady(op, responses)
    /\ LET res == PollResult(op, responses)
       IN  hist' = [hist EXCEPT ![res.id] = Append(@, [type |-> res.type, err |-> res.err])]
    /\ assertFailed' = assertFailed \cup PollAsserts(op, responses)
    /\ responses' = PollResponses(op, responses)
    /\ op' = PollOp(op, responses)
    /\ UNCHANGED <<initialized, next_id_, conn, voice_reqs, text_reqs>>
    /\ UNCHANGED <<taskVars, budget, srv, cancelVars, issued, kind, sent, nput, errCode>>

\* ------------------------------------------------- the mutexes (section 5)
\* The locking of speech_impl.cc, statement by statement: which mutex a thread
\* locks, unlocks or waits with, and which shared object it reads or writes in
\* between. What a call finds in the queues and in the controller is left open:
\* every branch of the code can be taken.
Holds(t, m) == \E i \in 1..Len(held[t]) : held[t][i] = m
Free(m) == \A t \in Threads : ~Holds(t, m)

\* t locks m (lock_guard / unique_lock), t unlocks m, t goes to pc, t returns
\* from its call
Lock(t, m) == Free(m) /\ held' = [held EXCEPT ![t] = Append(@, m)]
Unlock(t, m) == held' = [held EXCEPT ![t] = SelectSeq(@, LAMBDA x : x # m)]
Goto(t, pc) == at' = [at EXCEPT ![t].pc = pc]
Return(t) == at' = [at EXCEPT ![t] = [call |-> "none", pc |-> "idle"]]

\* put_text, start_voice, put_voice, end_voice: the test of initialized_ comes
\* first (lines 57, 75, 93, 108), the lock_guard on req_mutex_ after it
PlainCalls == {"put_text", "start_voice", "put_voice", "end_voice"}

CallTest(c, call) ==
    /\ initialized
    /\ at[c].pc = "idle"
    /\ at' = [at EXCEPT ![c] = [call |-> call, pc |-> "test"]]
    /\ UNCHANGED held

\* lines 60, 77, 97, 112: lock_guard<mutex> locker(req_mutex_)
CallLock(c) ==
    /\ at[c].call \in PlainCalls /\ at[c].pc = "test"
    /\ Lock(c, "req_mutex")
    /\ Goto(c, "body")

\* the call returns and its lock_guard unlocks
CallReturn(c) ==
    /\ at[c].call \in PlainCalls /\ at[c].pc = "body"
    /\ Unlock(c, "req_mutex")
    /\ Return(c)

\* the mutexes cancel() locks with a reversed order
CancelLocks_RespFirst == <<"resp_mutex", "req_mutex">>

\* cancel(): the mutexes it locks, in order (lines 122 and 138 / 149)
CancelLocks == <<"req_mutex", "resp_mutex">>

\* cancel(id) is called: line 122 is its first statement
CancelCall(c) ==
    /\ initialized
    /\ at[c].pc = "idle"
    /\ at' = [at EXCEPT ![c] = [call |-> "cancel", pc |-> "lock1"]]
    /\ UNCHANGED held

\* line 122: lock_guard<mutex> req_locker(req_mutex_)
CancelLock1(c) ==
    /\ at[c].call = "cancel" /\ at[c].pc = "lock1"
    /\ Lock(c, CancelLocks[1])
    /\ Goto(c, "body")

\* lines 127-130, 132-137: the id is found in voice_reqs_ or text_reqs_, return
CancelReturnEarly(c) ==
    /\ at[c].call = "cancel" /\ at[c].pc = "body"
    /\ held' = [held EXCEPT ![c] = <<>>]
    /\ Return(c)

\* lines 138, 149: lock_guard<mutex> resp_locker(resp_mutex_), with the first
\* mutex held
CancelLock2(c) ==
    /\ at[c].call = "cancel" /\ at[c].pc = "body"
    /\ Goto(c, "lock2")
    /\ UNCHANGED held

CancelLocked2(c) ==
    /\ at[c].call = "cancel" /\ at[c].pc = "lock2"
    /\ Lock(c, CancelLocks[2])
    /\ Goto(c, "body2")

\* lines 139, 150: after cancel_op both lock_guards unlock
CancelReturn(c) ==
    /\ at[c].call = "cancel" /\ at[c].pc = "body2"
    /\ held' = [held EXCEPT ![c] = <<>>]
    /\ Return(c)

\* poll(), line 205: unique_lock<mutex> locker(resp_mutex_)
PollCall ==
    /\ initialized
    /\ at["poller"].pc = "idle"
    /\ at' = [at EXCEPT !["poller"] = [call |-> "poll", pc |-> "lock"]]
    /\ UNCHANGED held

PollLocked ==
    /\ at["poller"].pc = "lock"
    /\ Lock("poller", "resp_mutex")
    /\ Goto("poller", "body")

\* lines 220, 232, 252: poll returns a result
PollReturn ==
    /\ at["poller"].pc = "body"
    /\ Unlock("poller", "resp_mutex")
    /\ Return("poller")

\* line 257: resp_cond_.wait(locker) unlocks resp_mutex_ while it waits
PollWait ==
    /\ at["poller"].pc = "body"
    /\ Unlock("poller", "resp_mutex")
    /\ Goto("poller", "wait")

\* resp_cond_ is notified (or the wait ends by itself): lock again
PollWake ==
    /\ at["poller"].pc = "wait"
    /\ Goto("poller", "lock")
    /\ UNCHANGED held

\* send_reqs, line 285: unique_lock<mutex> locker(req_mutex_)
SendLock ==
    /\ initialized
    /\ at["send_reqs"].pc = "top"
    /\ Lock("send_reqs", "req_mutex")
    /\ Goto("send_reqs", "pop")

\* lines 298-301: nothing to take, req_cond_.wait(locker) unlocks req_mutex_
SendIdle ==
    /\ at["send_reqs"].pc = "pop"
    /\ Unlock("send_reqs", "req_mutex")
    /\ Goto("send_reqs", "req_wait")

\* req_cond_ is notified: line 301 continue, lock again at line 285
SendWake ==
    /\ at["send_reqs"].pc = "req_wait"
    /\ Goto("send_reqs", "top")
    /\ UNCHANGED held

\* line 303: a request was taken, do_ctl_change_op(info) with req_mutex_ held
SendCtlChangeOp ==
    /\ at["send_reqs"].pc = "pop"
    /\ Goto("send_reqs", "ctl")
    /\ UNCHANGED held

\* lines 304-307: locker.unlock(), then do_request if opr, else the loop top
SendUnlock(opr) ==
    /\ at["send_reqs"].pc = "ctl"
    /\ Unlock("send_reqs", "req_mutex")
    /\ Goto("send_reqs", IF opr THEN "send" ELSE "top")

\* do_request, lines 427-445: connection_.send with no mutex held; then
\* lock_guard on resp_mutex_ for set_op_error (line 434) or refresh_op_time
\* (line 442), or nothing for a message that is not the last (rv = 1)
SendDone(outcome) ==
    /\ at["send_reqs"].pc = "send"
    /\ Goto("send_reqs", CASE outcome = "failed" -> "err_lock"
                           [] outcome = "last" -> "refresh_lock"
                           [] outcome = "more" -> "top")
    /\ UNCHANGED held

SendErrLocked ==
    /\ at["send_reqs"].pc = "err_lock"
    /\ Lock("send_reqs", "resp_mutex")
    /\ Goto("send_reqs", "err_body")

\* line 437: return -1, back to the loop top
SendErrReturn ==
    /\ at["send_reqs"].pc = "err_body"
    /\ Unlock("send_reqs", "resp_mutex")
    /\ Goto("send_reqs", "top")

SendRefreshLocked ==
    /\ at["send_reqs"].pc = "refresh_lock"
    /\ Lock("send_reqs", "resp_mutex")
    /\ Goto("send_reqs", "refresh_body")

\* line 445: return 0; send_reqs goes on to line 310
SendRefreshReturn ==
    /\ at["send_reqs"].pc = "refresh_body"
    /\ Unlock("send_reqs", "resp_mutex")
    /\ Goto("send_reqs", "wait_lock")

\* line 310: unique_lock<mutex> resp_locker(resp_mutex_)
SendWaitLocked ==
    /\ at["send_reqs"].pc = "wait_lock"
    /\ Lock("send_reqs", "resp_mutex")
    /\ Goto("send_reqs", "wait_body")

\* line 311: wait_op_finish waits on the condition, resp_mutex_ unlocked
SendWaitBlock ==
    /\ at["send_reqs"].pc = "wait_body"
    /\ Unlock("send_reqs", "resp_mutex")
    /\ Goto("send_reqs", "wait_cond")

SendWaitWake ==
    /\ at["send_reqs"].pc = "wait_cond"
    /\ Goto("send_reqs", "wait_lock")
    /\ UNCHANGED held

\* lines 311-314: wait_op_finish returns, resp_locker unlocks, loop top
SendWaitReturn ==
    /\ at["send_reqs"].pc = "wait_body"
    /\ Unlock("send_reqs", "resp_mutex")
    /\ Goto("send_reqs", "top")

\* gen_results, line 456: unique_lock<mutex> locker(resp_mutex_)
RecvLock ==
    /\ initialized
    /\ at["gen_results"].pc = "top"
    /\ Lock("gen_results", "resp_mutex")
    /\ Goto("gen_results", "timeout")

\* lines 457-463: op_timeout(), locker.unlock(), connection_.recv
RecvUnlock ==
    /\ at["gen_results"].pc = "timeout"
    /\ Unlock("gen_results", "resp_mutex")
    /\ Goto("gen_results", "recv")

\* line 466: recv returned (not NOT_READY), locker.lock()
RecvReturned ==
    /\ at["gen_results"].pc = "recv"
    /\ Goto("gen_results", "lock2")
    /\ UNCHANGED held

RecvLocked ==
    /\ at["gen_results"].pc = "lock2"
    /\ Lock("gen_results", "resp_mutex")
    /\ Goto("gen_results", "handle")

\* lines 467-483: the response or the failure is handled, locker.unlock()
RecvHandled ==
    /\ at["gen_results"].pc = "handle"
    /\ Unlock("gen_results", "resp_mutex")
    /\ Goto("gen_results", "top")

\* the mutex t is about to lock ("none": it is not at a lock statement)
Wants(t) ==
    LET a == at[t]
    IN  CASE a.call \in PlainCalls /\ a.pc = "test" -> "req_mutex"
          [] a.call = "cancel" /\ a.pc = "lock1" -> CancelLocks[1]
          [] a.call = "cancel" /\ a.pc = "lock2" -> CancelLocks[2]
          [] a.call = "poll" /\ a.pc = "lock" -> "resp_mutex"
          [] a.call = "send_reqs" /\ a.pc = "top" -> "req_mutex"
          [] a.call = "send_reqs" /\ a.pc \in {"err_lock", "refresh_lock", "wait_lock"}
               -> "resp_mutex"
          [] a.call = "gen_results" /\ a.pc \in {"top", "lock2"} -> "resp_mutex"
          [] OTHER -> "none"

\* the shared objects t reads or writes where it is
Touches(t) ==
    LET a == at[t]
    IN  CASE a.call \in PlainCalls /\ a.pc = "test" -> {"initialized_"}
          [] a.call = "put_text" /\ a.pc = "body" -> {"text_reqs_"}
          [] a.call \in {"start_voice", "put_voice", "end_voice"} /\ a.pc = "body"
               -> {"voice_reqs_"}
          [] a.call = "cancel" /\ a.pc = "body"
               -> {"initialized_", "voice_reqs_", "text_reqs_"}
          [] a.call = "cancel" /\ a.pc = "body2" -> {"controller_"}
          [] a.call = "poll" /\ a.pc = "body"
               -> {"initialized_", "controller_", "responses_"}
          [] a.call = "send_reqs" /\ a.pc = "pop"
               -> {"initialized_", "voice_reqs_", "text_reqs_"}
          [] a.call = "send_reqs" /\ a.pc \in {"ctl", "err_body", "refresh_body", "wait_body"}
               -> {"controller_"}
          [] a.call = "gen_results" /\ a.pc = "timeout" -> {"controller_"}
          [] a.call = "gen_results" /\ a.pc = "handle" -> {"controller_", "responses_"}
          [] OTHER -> {}

\* the mutex section 5 gives each shared object
GuardOf(x) ==
    IF x \in {"initialized_", "voice_reqs_", "text_reqs_"} THEN "req_mutex"
    ELSE "resp_mutex"

\* ------------------------------------- VoiceService dispatcher (section 4.5)
\* The dispatcher of jni/main/VoiceService.cpp: voice_event_callback, the event
\* thread onEvent, the response thread onResponse and network_state_change.
\* The engine behind _speech is seen through what its calls return:
\* start_voice a new id, or -1 when the engine is not initialized
\* (speech_impl.cc line 75); poll the results of the ids it gave out.
\* clear() and clear(id) are declared in VoiceService.h, which is not part of
\* the sources at hand; they are modelled from section 4.5.

\* the events the front-end delivers, one kind per case of the switch in
\* onEvent: HAS_VOICE(flag) matters for VAD_DATA only
FrontEndEvents ==
    {[event |-> k, voice |-> FALSE] :
        k \in {"WAKE_PRE", "WAKE_CMD", "VAD_START", "VAD_DATA", "VAD_END", "VAD_CANCEL",
               "VOICE_PRINT", "SLEEP"}}
    \cup {[event |-> "VAD_DATA", voice |-> TRUE]}

\* clear(): no active session
Clear(sid) == -1

\* clear(id): the per-session state of id is cleared
ClearId(sid, id) == IF sid = id THEN Clear(sid) ELSE sid

\* calls after the session id went from sid to sid2 in a step of `by': a
\* clearing of an active session id is entered
LogClear(log, sid, sid2, by) ==
    IF sid > 0 /\ sid2 # sid
    THEN Append(log, [fn |-> "clear", id |-> sid, event |-> by, tested |-> sid])
    ELSE log

\* VoiceService::VoiceService(): the configuration is loaded; no statement of
\* VoiceService.cpp gives asr_finished its first value
VoiceServiceNew(cv, af) ==
    /\ ~constructed
    /\ constructed' = TRUE
    /\ cloud_vad' = cv
    /\ asr_finished' = af
    /\ session_id' = Clear(session_id)
    /\ UNCHANGED <<mCurrentSpeechState, networkPc, speech, events, onEventPc, event,
                   tested, arrived, handled, calls>>

\* network_state_change(true): lines 68 - 85; ok is the result of config() and
\* prepare()
NetworkUp(ok) ==
    /\ constructed
    /\ networkPc = "none"
    /\ speech.changes < MaxNetwork
    /\ mCurrentSpeechState # "PREPARED"
    /\ IF ok
       THEN /\ mCurrentSpeechState' = "PREPARED"
            /\ speech' = [speech EXCEPT !.initialized = TRUE, !.polling = TRUE,
                                        !.changes = @ + 1]
       ELSE /\ speech' = [speech EXCEPT !.changes = @ + 1]
            /\ UNCHANGED mCurrentSpeechState
    /\ UNCHANGED <<constructed, cloud_vad, session_id, asr_finished, networkPc, events,
                   onEventPc, event, tested, arrived, handled, calls>>

\* network_state_change(false): lines 86 - 95, up to _speech->release()
NetworkDownRelease ==
    /\ constructed
    /\ networkPc = "none"
    /\ speech.changes < MaxNetwork
    /\ mCurrentSpeechState = "PREPARED"
    /\ speech' = [speech EXCEPT !.initialized = FALSE, !.live = {}, !.started = {},
                              !.changes = @ + 1]
    /\ networkPc' = "released"
    /\ UNCHANGED <<constructed, cloud_vad, session_id, asr_finished, mCurrentSpeechState,
                   events, onEventPc, event, tested, arrived, handled, calls>>

\* network_state_change(false): line 96
NetworkDownDone ==
    /\ networkPc = "released"
    /\ mCurrentSpeechState' = "RELEASED"
    /\ networkPc' = "none"
    /\ UNCHANGED <<constructed, cloud_vad, session_id, asr_finished, speech, events,
                   onEventPc, event, tested, arrived, handled, calls>>

\* voice_event_callback: lines 145 - 165
voice_event_callback(e) ==
    /\ constructed
    /\ arrived < MaxEvents
    /\ events' = Append(events, [event |-> e.event, voice |-> e.voice, n |-> arrived + 1])
    /\ arrived' = arrived + 1
    /\ UNCHANGED <<constructed, cloud_vad, session_id, asr_finished, mCurrentSpeechState,
                   networkPc, speech, onEventPc, event, tested, handled, calls>>

\* onEvent: lines 170 - 176
OnEventPop ==
    /\ onEventPc = "wait"
    /\ events # <<>>
    /\ event' = Head(events)
    /\ events' = Tail(events)
    /\ handled' = handled + 1
    /\ onEventPc' = "switch"
    /\ UNCHANGED <<constructed, cloud_vad, session_id, asr_finished, mCurrentSpeechState,
                   networkPc, speech, tested, arrived, calls>>

\* back to the top of the loop of onEvent: line 224
OnEventDone ==
    /\ onEventPc' = "wait"
    /\ event' = NoEvent
    /\ tested' = -1

\* onEvent: WAKE_PRE, WAKE_CMD, VOICE_PRINT and SLEEP make callbacks and stash
\* the voice-trigger record: lines 181 - 188 and 214 - 222
OnEventOther ==
    /\ onEventPc = "switch"
    /\ event.event \in {"WAKE_PRE", "WAKE_CMD", "VOICE_PRINT", "SLEEP"}
    /\ OnEventDone
    /\ UNCHANGED <<constructed, cloud_vad, session_id, asr_finished, mCurrentSpeechState,
                   networkPc, speech, events, arrived, handled, calls>>

\* onEvent, case VAD_START: lines 189 - 195 with vad_start, lines 112 - 133
OnVadStart ==
    /\ onEventPc = "switch"
    /\ event.event = "VAD_START"
    /\ IF session_id < 0
       THEN IF mCurrentSpeechState = "PREPARED"
            THEN IF speech.initialized
                 THEN /\ session_id' = speech.last + 1
                      /\ speech' = [speech EXCEPT !.last = @ + 1, !.live = @ \cup {speech.last + 1}]
                      /\ calls' = Append(calls, [fn |-> "start_voice", id |-> speech.last + 1,
                                                 event |-> event.event, tested |-> session_id])
                 ELSE /\ session_id' = -1
                      /\ calls' = Append(calls, [fn |-> "start_voice", id |-> -1,
                                                 event |-> event.event, tested |-> session_id])
                      /\ UNCHANGED speech
            ELSE /\ session_id' = -1
                 /\ UNCHANGED <<speech, calls>>
       ELSE UNCHANGED <<session_id, speech, calls>>
    /\ OnEventDone
    /\ UNCHANGED <<constructed, cloud_vad, asr_finished, mCurrentSpeechState, networkPc,
                   events, arrived, handled>>

\* onEvent, case VAD_DATA: the test of line 197
OnVadData ==
    /\ onEventPc = "switch"
    /\ event.event = "VAD_DATA"
    /\ IF session_id > 0 /\ event.voice
       THEN /\ onEventPc' = "put_voice"
            /\ tested' = session_id
            /\ UNCHANGED event
       ELSE OnEventDone
    /\ UNCHANGED <<constructed, cloud_vad, session_id, asr_finished, mCurrentSpeechState,
                   networkPc, speech, events, arrived, handled, calls>>

\* The argument session_id of a call that follows a test of session_id:
\* onEvent reads session_id with no mutex held while onResponse clears it
\* (line 282), so the call gets the value read by the test or the value the
\* field has now.
SessionArg == {tested, session_id}

\* onEvent, case VAD_DATA: the call of line 198
OnPutVoice ==
    /\ onEventPc = "put_voice"
    /\ \E id \in SessionArg :
         calls' = Append(calls, [fn |-> "put_voice", id |-> id, event |-> event.event,
                                 tested |-> tested])
    /\ OnEventDone
    /\ UNCHANGED <<constructed, cloud_vad, session_id, asr_finished, mCurrentSpeechState,
                   networkPc, speech, events, arrived, handled>>

\* onEvent, case VAD_END: lines 200 - 207 up to the test of line 203
OnVadEnd ==
    /\ onEventPc = "switch"
    /\ event.event = "VAD_END"
    /\ IF ~cloud_vad
       THEN IF session_id > 0
            THEN /\ onEventPc' = "end_voice"
                 /\ tested' = session_id
                 /\ UNCHANGED <<event, session_id>>
            ELSE /\ session_id' = Clear(session_id)
                 /\ OnEventDone
       ELSE /\ OnEventDone
            /\ UNCHANGED session_id
    /\ UNCHANGED <<constructed, cloud_vad, asr_finished, mCurrentSpeechState, networkPc,
                   speech, events, arrived, handled, calls>>

\* onEvent, case VAD_END: the call of line 203 and clear(), line 205
OnEndVoice ==
    /\ onEventPc = "end_voice"
    /\ session_id' = Clear(session_id)
    /\ \E id \in SessionArg :
         calls' = LogClear(Append(calls, [fn |-> "end_voice", id |-> id,
                                          event |-> event.event, tested |-> tested]),
                           session_id, session_id', event.event)
    /\ OnEventDone
    /\ UNCHANGED <<constructed, cloud_vad, asr_finished, mCurrentSpeechState, networkPc,
                   speech, events, arrived, handled>>

\* the session id after case VAD_CANCEL: line 212
VadCancelClear(sid) == IF ~cloud_vad THEN Clear(sid) ELSE sid

\* onEvent, case VAD_CANCEL: lines 208 - 213 up to the test of line 210
OnVadCancel ==
    /\ onEventPc = "switch"
    /\ event.event = "VAD_CANCEL"
    /\ IF session_id > 0 /\ ~asr_finished
       THEN /\ onEventPc' = "cancel"
            /\ tested' = session_id
            /\ UNCHANGED <<event, session_id, asr_finished, calls>>
       ELSE /\ asr_finished' = FALSE
            /\ session_id' = VadCancelClear(session_id)
            /\ calls' = LogClear(calls, session_id, session_id', event.event)
            /\ OnEventDone
    /\ UNCHANGED <<constructed, cloud_vad, mCurrentSpeechState, networkPc, speech, events,
                   arrived, handled>>

\* onEvent, case VAD_CANCEL: the call of line 210, then lines 211 - 212
OnCancel ==
    /\ onEventPc = "cancel"
    /\ asr_finished' = FALSE
    /\ session_id' = VadCancelClear(session_id)
    /\ \E id \in SessionArg :
         calls' = LogClear(Append(calls, [fn |-> "cancel", id |-> id,
                                          event |-> event.event, tested |-> tested]),
                           session_id, session_id', event.event)
    /\ OnEventDone
    /\ UNCHANGED <<constructed, cloud_vad, mCurrentSpeechState, networkPc, speech, events,
                   arrived, handled>>

\* onResponse, line 233: the lambda arbitration
arbitration(a) == a \in {"fake", "reject"}

\* the results poll returns to onResponse: the "activation" field of the extra
\* of INTER and END is "fake", "reject", "accept" or missing; START, CANCELLED
\* and ERROR carry no extra; ERROR carries a SpeechError other than
\* SPEECH_SUCCESS
PollResults(id) ==
    {[id |-> id, type |-> t, err |-> "SPEECH_SUCCESS", extra |-> x] :
        t \in {"INTER", "END"}, x \in {"fake", "reject", "accept", "none"}}
    \cup {[id |-> id, type |-> t, err |-> "SPEECH_SUCCESS", extra |-> "none"] :
            t \in {"START", "CANCELLED"}}
    \cup {[id |-> id, type |-> "ERROR", err |-> "SPEECH_TIMEOUT", extra |-> "none"]}

\* onResponse, lines 245 - 247: the result carries an activation
HasActivation(res) == res.type \in {"INTER", "END"} /\ res.extra # "none"

\* onResponse, lines 242 - 256: activation after the first if
ActivationRecorded(act, res) ==
    IF res.type = "START" THEN ""
    ELSE IF HasActivation(res) THEN res.extra
    ELSE act

\* onResponse, lines 257 - 281: the callback of the second if for a result
ResultCallback(res) ==
    CASE res.type = "INTER" -> {"intermediate_result"}
      [] res.type = "END" -> {"voice_command"}
      [] res.type = "CANCELLED" -> {"voice_event_cancel"}
      [] res.type = "ERROR" /\ res.err # "SPEECH_SUCCESS" -> {"speech_error"}
      [] OTHER -> {}

\* onResponse, lines 274 - 280: the branch of ERROR is taken
ErrorBranch(act, res) ==
    ~arbitration(ActivationRecorded(act, res)) /\ res.type = "ERROR" /\ res.err # "SPEECH_SUCCESS"

\* onResponse, lines 242 - 281: the callbacks made for a result
OnResponseCallbacks(act, res, sid) ==
    (IF HasActivation(res) THEN {"voice_event_activation"} ELSE {})
    \cup (IF HasActivation(res) /\ arbitration(res.extra) THEN {"set_siren_state"} ELSE {})
    \cup (IF ~arbitration(ActivationRecorded(act, res)) THEN ResultCallback(res) ELSE {})
    \cup (IF ErrorBranch(act, res) /\ sid = res.id /\ cloud_vad THEN {"set_siren_state"} ELSE {})

\* onResponse, lines 242 - 281: activation when the loop body is done
OnResponseActivation(act, res) ==
    IF ErrorBranch(act, res) THEN "" ELSE ActivationRecorded(act, res)

\* the activation the results of the session of res carried, res included
VerdictAfter(v, res) ==
    [id |-> res.id,
     activation |-> IF res.type = "START" THEN ""
                    ELSE IF HasActivation(res) THEN res.extra
                    ELSE IF v.id = res.id THEN v.activation
                    ELSE ""]

\* onResponse, one result of poll: lines 238 - 282. The engine returns the
\* results of one session after the other: START first when there is one, the
\* result of type >= END last, CANCELLED only for an id cancel was called with.
OnResponse(res) ==
    /\ speech.polling
    /\ speech.initialized
    /\ res.id \in speech.live
    /\ \A j \in speech.live : res.id <= j
    /\ res.type = "START" => res.id \notin speech.started
    /\ res.type \in {"INTER", "END"} => res.id \in speech.started
    /\ res.type = "CANCELLED" =>
         \E i \in 1..Len(calls) : calls[i].fn = "cancel" /\ calls[i].id = res.id
    /\ sr' = res
    /\ activation' = OnResponseActivation(activation, res)
    /\ callbacks' = OnResponseCallbacks(activation, res, session_id)
    /\ verdict' = VerdictAfter(verdict, res)
    /\ asr_finished' = IF res.type = "START" \/ ErrorBranch(activation, res) THEN FALSE
                       ELSE asr_finished
    /\ IF IsTerminalType(res.type)
       THEN /\ session_id' = ClearId(session_id, res.id)
            /\ speech' = [speech EXCEPT !.live = @ \ {res.id}, !.started = @ \ {res.id}]
            /\ calls' = LogClear(calls, session_id, session_id', "response")
       ELSE /\ speech' = [speech EXCEPT !.started = IF res.type = "START" THEN @ \cup {res.id}
                                                     ELSE @]
            /\ UNCHANGED <<session_id, calls>>
    /\ UNCHANGED <<constructed, cloud_vad, mCurrentSpeechState, networkPc, events,
                   onEventPc, event, tested, arrived, handled>>

\* onResponse: poll returns false after release; clear() and exit, lines 238 -
\* 240 and 284
OnResponseExit ==
    /\ speech.polling
    /\ ~speech.initialized
    /\ session_id' = Clear(session_id)
    /\ speech' = [speech EXCEPT !.polling = FALSE]
    /\ calls' = LogClear(calls, session_id, session_id', "exit")
    /\ activation' = ""
    /\ sr' = NoResult
    /\ callbacks' = {}
    /\ UNCHANGED <<constructed, cloud_vad, asr_finished, mCurrentSpeechState, networkPc,
                   events, onEventPc, event, tested, arrived, handled, verdict>>

\* ---------------------------------------------------------- specifications
\* every operation, within the bounds of the guards
Next ==
    \/ Prepare /\ UNCHANGED otherVars
    \/ ReleaseBegin /\ UNCHANGED otherVars
    \/ ReleaseJoinReq /\ UNCHANGED otherVars
    \/ ReleaseJoinResp /\ UNCHANGED otherVars
    \/ PutTextBegin /\ UNCHANGED otherVars
    \/ PutTextEnqueue /\ UNCHANGED otherVars
    \/ StartVoice /\ UNCHANGED otherVars
    \/ \E id \in Ids : PutVoice(id) /\ UNCHANGED otherVars
    \/ \E id \in Ids : EndVoice(id) /\ UNCHANGED otherVars
    \/ \E id \in Ids : CancelOne(id) /\ UNCHANGED otherVars
    \/ CancelAll /\ UNCHANGED otherVars
    \/ SenderPop /\ UNCHANGED otherVars
    \/ SenderExit /\ UNCHANGED otherVars
    \/ SenderRequestOk /\ UNCHANGED otherVars
    \/ \E r \in {"CONNECTION_NOT_AVAILABLE", "TIMEOUT"} : SenderRequestFail(r) /\ UNCHANGED otherVars
    \/ SenderWaitDone /\ UNCHANGED otherVars
    \/ Tick /\ UNCHANGED otherVars
    \/ ReceiverBegin /\ UNCHANGED otherVars
    \/ \E rid \in Ids, code \in ResultCodes, finish \in BOOLEAN :
          ReceiverResponse(rid, code, finish) /\ UNCHANGED otherVars
    \/ \E rid \in Ids, code \in ResultCodes, finish \in BOOLEAN :
          ReceiverLateResponse(rid, code, finish) /\ UNCHANGED otherVars
    \/ ReceiverTimeout /\ UNCHANGED otherVars
    \/ \E r \in {"CONNECTION_BROKEN", "UNKNOWN"} : ReceiverError(r) /\ UNCHANGED otherVars
    \/ ReceiverExit /\ UNCHANGED otherVars
    \/ Poll /\ UNCHANGED otherVars

Spec == Init /\ [][Next]_vars

\* One engine life with one session: prepare, a single put_text or start_voice
\* with its chunks, cancels, transport failures, deadline and polls.
SoloScope == next_id_ <= SoloIds

SoloNext ==
    \/ Prepare /\ SoloScope' /\ UNCHANGED otherVars
    \/ PutTextBegin /\ SoloScope' /\ UNCHANGED otherVars
    \/ PutTextEnqueue /\ SoloScope' /\ UNCHANGED otherVars
    \/ StartVoice /\ SoloScope' /\ UNCHANGED otherVars
    \/ \E id \in Ids : PutVoice(id) /\ SoloScope' /\ UNCHANGED otherVars
    \/ \E id \in Ids : EndVoice(id) /\ SoloScope' /\ UNCHANGED otherVars
    \/ \E id \in Ids : CancelOne(id) /\ SoloScope' /\ UNCHANGED otherVars
    \/ CancelAll /\ SoloScope' /\ UNCHANGED otherVars
    \/ SenderPop /\ SoloScope' /\ UNCHANGED otherVars
    \/ SenderRequestOk /\ SoloScope' /\ UNCHANGED otherVars
    \/ \E r \in {"CONNECTION_NOT_AVAILABLE", "TIMEOUT"} : SenderRequestFail(r) /\ SoloScope' /\ UNCHANGED otherVars
    \/ SenderWaitDone /\ SoloScope' /\ UNCHANGED otherVars
    \/ Tick /\ SoloScope' /\ UNCHANGED otherVars
    \/ ReceiverBegin /\ SoloScope' /\ UNCHANGED otherVars
    \/ \E rid \in Ids, code \in ResultCodes, finish \in BOOLEAN :
          ReceiverResponse(rid, code, finish) /\ SoloScope' /\ UNCHANGED otherVars
    \/ \E rid \in Ids, code \in ResultCodes, finish \in BOOLEAN :
          ReceiverLateResponse(rid, code, finish) /\ SoloScope' /\ UNCHANGED otherVars
    \/ ReceiverTimeout /\ SoloScope' /\ UNCHANGED otherVars
    \/ \E r \in {"CONNECTION_BROKEN", "UNKNOWN"} : ReceiverError(r) /\ SoloScope' /\ UNCHANGED otherVars
    \/ Poll /\ SoloScope' /\ UNCHANGED otherVars

SpecSolo == Init /\ [][SoloNext]_vars

\* One engine life with two sessions that may overlap, and at most PairEvents
\* disturbances.
PairScope ==
    /\ budget.chunks <= PairChunks
    /\ budget.faults + budget.cancels + budget.inters <= PairEvents

PairNext ==
    \/ Prepare /\ PairScope' /\ UNCHANGED otherVars
    \/ PutTextBegin /\ PairScope' /\ UNCHANGED otherVars
    \/ PutTextEnqueue /\ PairScope' /\ UNCHANGED otherVars
    \/ StartVoice /\ PairScope' /\ UNCHANGED otherVars
    \/ \E id \in Ids : PutVoice(id) /\ PairScope' /\ UNCHANGED otherVars
    \/ \E id \in Ids : EndVoice(id) /\ PairScope' /\ UNCHANGED otherVars
    \/ \E id \in Ids : CancelOne(id) /\ PairScope' /\ UNCHANGED otherVars
    \/ CancelAll /\ PairScope' /\ UNCHANGED otherVars
    \/ SenderPop /\ PairScope' /\ UNCHANGED otherVars
    \/ SenderRequestOk /\ PairScope' /\ UNCHANGED otherVars
    \/ \E r \in {"CONNECTION_NOT_AVAILABLE", "TIMEOUT"} : SenderRequestFail(r) /\ PairScope' /\ UNCHANGED otherVars
    \/ SenderWaitDone /\ PairScope' /\ UNCHANGED otherVars
    \/ ReceiverBegin /\ PairScope' /\ UNCHANGED otherVars
    \/ \E rid \in Ids, code \in ResultCodes, finish \in BOOLEAN :
          ReceiverResponse(rid, code, finish) /\ PairScope' /\ UNCHANGED otherVars
    \/ \E r \in {"CONNECTION_BROKEN", "UNKNOWN"} : ReceiverError(r) /\ PairScope' /\ UNCHANGED otherVars
    \/ Poll /\ PairScope' /\ UNCHANGED otherVars

SpecPair == Init /\ [][PairNext]_vars

\* Engine lives: prepare, sessions, release and prepare again, with a transport
\* that fails only once released and a client that does not cancel.
LifeScope ==
    /\ budget.chunks <= LifeChunks
    /\ budget.faults + budget.cancels + budget.inters = 0

LifeNext ==
    \/ Prepare /\ LifeScope' /\ UNCHANGED otherVars
    \/ ReleaseBegin /\ LifeScope' /\ UNCHANGED otherVars
    \/ ReleaseJoinReq /\ LifeScope' /\ UNCHANGED otherVars
    \/ ReleaseJoinResp /\ LifeScope' /\ UNCHANGED otherVars
    \/ PutTextBegin /\ LifeScope' /\ UNCHANGED otherVars
    \/ PutTextEnqueue /\ LifeScope' /\ UNCHANGED otherVars
    \/ StartVoice /\ LifeScope' /\ UNCHANGED otherVars
    \/ \E id \in Ids : PutVoice(id) /\ LifeScope' /\ UNCHANGED otherVars
    \/ \E id \in Ids : EndVoice(id) /\ LifeScope' /\ UNCHANGED otherVars
    \/ SenderPop /\ LifeScope' /\ UNCHANGED otherVars
    \/ SenderExit /\ LifeScope' /\ UNCHANGED otherVars
    \/ SenderRequestOk /\ LifeScope' /\ UNCHANGED otherVars
    \/ \E r \in {"CONNECTION_NOT_AVAILABLE", "TIMEOUT"} : SenderRequestFail(r) /\ LifeScope' /\ UNCHANGED otherVars
    \/ SenderWaitDone /\ LifeScope' /\ UNCHANGED otherVars
    \/ ReceiverBegin /\ LifeScope' /\ UNCHANGED otherVars
    \/ \E rid \in Ids, code \in ResultCodes, finish \in BOOLEAN :
          ReceiverResponse(rid, code, finish) /\ LifeScope' /\ UNCHANGED otherVars
    \/ ReceiverExit /\ LifeScope' /\ UNCHANGED otherVars
    \/ Poll /\ LifeScope' /\ UNCHANGED otherVars

SpecLife == Init /\ [][LifeNext]_vars

\* The prepared engine as its threads lock and unlock the two mutexes.
LocksNext ==
    \/ Prepare /\ UNCHANGED otherVars
    \/ \E c \in Callers, call \in PlainCalls : CallTest(c, call) /\ UNCHANGED <<sessionVars, serviceVars>>
    \/ \E c \in Callers : CallLock(c) /\ UNCHANGED <<sessionVars, serviceVars>>
    \/ \E c \in Callers : CallReturn(c) /\ UNCHANGED <<sessionVars, serviceVars>>
    \/ \E c \in Callers : CancelCall(c) /\ UNCHANGED <<sessionVars, serviceVars>>
    \/ \E c \in Callers : CancelLock1(c) /\ UNCHANGED <<sessionVars, serviceVars>>
    \/ \E c \in Callers : CancelReturnEarly(c) /\ UNCHANGED <<sessionVars, serviceVars>>
    \/ \E c \in Callers : CancelLock2(c) /\ UNCHANGED <<sessionVars, serviceVars>>
    \/ \E c \in Callers : CancelLocked2(c) /\ UNCHANGED <<sessionVars, serviceVars>>
    \/ \E c \in Callers : CancelReturn(c) /\ UNCHANGED <<sessionVars, serviceVars>>
    \/ PollCall /\ UNCHANGED <<sessionVars, serviceVars>>
    \/ PollLocked /\ UNCHANGED <<sessionVars, serviceVars>>
    \/ PollReturn /\ UNCHANGED <<sessionVars, serviceVars>>
    \/ PollWait /\ UNCHANGED <<sessionVars, serviceVars>>
    \/ PollWake /\ UNCHANGED <<sessionVars, serviceVars>>
    \/ SendLock /\ UNCHANGED <<sessionVars, serviceVars>>
    \/ SendIdle /\ UNCHANGED <<sessionVars, serviceVars>>
    \/ SendWake /\ UNCHANGED <<sessionVars, serviceVars>>
    \/ SendCtlChangeOp /\ UNCHANGED <<sessionVars, serviceVars>>
    \/ \E opr \in BOOLEAN : SendUnlock(opr) /\ UNCHANGED <<sessionVars, serviceVars>>
    \/ \E outcome \in {"failed", "last", "more"} : SendDone(outcome) /\ UNCHANGED <<sessionVars, serviceVars>>
    \/ SendErrLocked /\ UNCHANGED <<sessionVars, serviceVars>>
    \/ SendErrReturn /\ UNCHANGED <<sessionVars, serviceVars>>
    \/ SendRefreshLocked /\ UNCHANGED <<sessionVars, serviceVars>>
    \/ SendRefreshReturn /\ UNCHANGED <<sessionVars, serviceVars>>
    \/ SendWaitLocked /\ UNCHANGED <<sessionVars, serviceVars>>
    \/ SendWaitBlock /\ UNCHANGED <<sessionVars, serviceVars>>
    \/ SendWaitWake /\ UNCHANGED <<sessionVars, serviceVars>>
    \/ SendWaitReturn /\ UNCHANGED <<sessionVars, serviceVars>>
    \/ RecvLock /\ UNCHANGED <<sessionVars, serviceVars>>
    \/ RecvUnlock /\ UNCHANGED <<sessionVars, serviceVars>>
    \/ RecvReturned /\ UNCHANGED <<sessionVars, serviceVars>>
    \/ RecvLocked /\ UNCHANGED <<sessionVars, serviceVars>>
    \/ RecvHandled /\ UNCHANGED <<sessionVars, serviceVars>>

SpecLocks == Init /\ [][LocksNext]_vars

\* The dispatcher over an engine seen through its calls.
DispatchNext ==
    \/ \E cv \in BOOLEAN, af \in BOOLEAN : VoiceServiceNew(cv, af) /\ UNCHANGED <<sessionVars, lockVars, responseVars>>
    \/ \E ok \in BOOLEAN : NetworkUp(ok) /\ UNCHANGED <<sessionVars, lockVars, responseVars>>
    \/ NetworkDownRelease /\ UNCHANGED <<sessionVars, lockVars, responseVars>>
    \/ NetworkDownDone /\ UNCHANGED <<sessionVars, lockVars, responseVars>>
    \/ \E e \in FrontEndEvents : voice_event_callback(e) /\ UNCHANGED <<sessionVars, lockVars, responseVars>>
    \/ OnEventPop /\ UNCHANGED <<sessionVars, lockVars, responseVars>>
    \/ OnEventOther /\ UNCHANGED <<sessionVars, lockVars, responseVars>>
    \/ OnVadStart /\ UNCHANGED <<sessionVars, lockVars, responseVars>>
    \/ OnVadData /\ UNCHANGED <<sessionVars, lockVars, responseVars>>
    \/ OnPutVoice /\ UNCHANGED <<sessionVars, lockVars, responseVars>>
    \/ OnVadEnd /\ UNCHANGED <<sessionVars, lockVars, responseVars>>
    \/ OnEndVoice /\ UNCHANGED <<sessionVars, lockVars, responseVars>>
    \/ OnVadCancel /\ UNCHANGED <<sessionVars, lockVars, responseVars>>
    \/ OnCancel /\ UNCHANGED <<sessionVars, lockVars, responseVars>>
    \/ \E id \in 1..MaxEvents : \E res \in PollResults(id) :
          OnResponse(res) /\ UNCHANGED <<sessionVars, lockVars>>
    \/ OnResponseExit /\ UNCHANGED <<sessionVars, lockVars>>

SpecDispatch == Init /\ [][DispatchNext]_vars


\* ------------------------------------------------------------------ claims
\* the results of h that end a session
TerminalCount(h) == Cardinality({i \in 1..Len(h) : IsTerminalType(h[i].type)})

\* all that was put is taken: the sender idles on empty queues and no operation
\* is held
Quiescent ==
    /\ initialized
    /\ voice_reqs.q = <<>>
    /\ text_reqs = <<>>
    /\ putTextPc = 0
    /\ senderPc = "idle"
    /\ op = NoOp

\* C1. Terminal uniqueness: poll never returns two results of type END,
\* CANCELLED or ERROR with the id of one session.
C1_TerminalUniqueness ==
    \A id \in Ids : TerminalCount(hist[id]) <= 1

\* C2. Order preservation: the results of one id are START, then INTER results,
\* then one terminal result: START is only the first result, INTER is never the
\* first, and nothing follows a terminal result (a session that ends before its
\* START was returned, as an early cancel does, counts as in order).
C2_OrderPreservation ==
    \A id \in Ids : \A i \in 1..Len(hist[id]) :
        /\ hist[id][i].type = "START" => i = 1
        /\ hist[id][i].type = "INTER" => i > 1
        /\ IsTerminalType(hist[id][i].type) => i = Len(hist[id])

\* C3. Cancellation safety: a voice session cancelled after start_voice returned
\* its id and before its terminal result was polled never gets an END result.
C3_CancellationSafety ==
    \A id \in cancelEarly :
        kind[id] = "voice" => \A i \in 1..Len(hist[id]) : hist[id][i].type # "END"

\* C4. Cancel of a still-queued session: once cancel(id) found id in voice_reqs_
\* or text_reqs_, before any terminal result of id, no VOICE message of id is
\* handed to the transport, id gets no terminal result other than one CANCELLED,
\* and has got that result when all requests are taken.
C4_CancelQueued ==
    \A id \in Ids :
        (cancelQueued[id] # -1 /\ id \in cancelEarly) =>
            /\ \A i \in 1..Len(sent[id]) :
                  i > cancelQueued[id] => sent[id][i].type # "VOICE"
            /\ \A i \in 1..Len(hist[id]) :
                  IsTerminalType(hist[id][i].type) => hist[id][i].type = "CANCELLED"
            /\ TerminalCount(hist[id]) <= 1
            /\ Quiescent => TerminalCount(hist[id]) = 1

\* C5. Cancel after finish is a no-op: after a cancel(id) issued when poll had
\* returned the terminal result of id, poll returns no further result of id.
C5_CancelAfterFinish ==
    \A id \in Ids : cancelLate[id] # -1 => Len(hist[id]) = cancelLate[id]

\* C6. Sentinels: while the engine is not prepared no call enqueues anything or
\* returns an id: voice_reqs_ and text_reqs_ stay as they are and no id is
\* returned, also when the call runs concurrently with release().
C6_Sentinels ==
    [][~initialized =>
          /\ text_reqs' = text_reqs
          /\ voice_reqs' = voice_reqs
          /\ issued' = issued]_vars

\* the steps of release(), of the sender task and of the receiver task
ReleaseSteps ==
    \/ ReleaseJoinReq
    \/ ReleaseJoinResp
    \/ SenderPop
    \/ SenderExit
    \/ SenderRequestOk
    \/ \E r \in {"CONNECTION_NOT_AVAILABLE", "TIMEOUT"} : SenderRequestFail(r)
    \/ SenderWaitDone
    \/ ReceiverBegin
    \/ \E rid \in Ids, code \in ResultCodes, finish \in BOOLEAN :
          ReceiverResponse(rid, code, finish)
    \/ ReceiverTimeout
    \/ \E r \in {"CONNECTION_BROKEN", "UNKNOWN"} : ReceiverError(r)
    \/ ReceiverExit

\* C7. release() always terminates: while a release() has not returned, release
\* itself or one of the two tasks it joins can take a step (the public calls do
\* nothing on an engine that is not initialized, so nothing else could end the
\* wait).
C7_ReleaseTerminates == releasePc # "none" => ENABLED ReleaseSteps

\* C8. Queue FIFO per id: the VOICE messages handed to the transport for an id
\* carry chunks that put_voice took for that id, in the order put_voice took
\* them and none twice (the chunk numbers strictly increase), each after the
\* id's START message and before any END message of the id.
C8_QueueFifo ==
    \A id \in Ids :
        LET s == sent[id]
        IN  \A i \in 1..Len(s) :
                s[i].type = "VOICE" =>
                    /\ s[i].chunk \in 1..nput[id]
                    /\ \A j \in 1..(i - 1) :
                          s[j].type = "VOICE" => s[j].chunk < s[i].chunk
                    /\ \E j \in 1..(i - 1) : s[j].type = "START"
                    /\ \A j \in 1..(i - 1) : s[j].type # "END"

\* C8 witness: both chunks of a voice session were sent, then its END
C8_Witness ==
    \E id \in Ids :
        /\ Len(sent[id]) = 4
        /\ sent[id][2] = [type |-> "VOICE", chunk |-> 1]
        /\ sent[id][3] = [type |-> "VOICE", chunk |-> 2]
        /\ sent[id][4].type = "END"

\* C9. A session id never repeats: an id that put_text or start_voice returns was
\* not returned before by this engine, in this engine life or an earlier one.
C9_IdNeverRepeats ==
    [][\A id \in Ids : (kind[id] = "none" /\ kind'[id] # "none") => id \notin issued]_vars

C10_ExpectedErr(code) ==
    IF code = 2 THEN "SPEECH_UNAUTHENTICATED" ELSE "SPEECH_UNKNOWN"

FinalSent(id) == \E i \in 1..Len(sent[id]) : sent[id][i].type \in {"TEXT", "END"}

\* C11. Timeout discipline: an operation carries the error TIMEOUT only if it is
\* current, the last message of its request was handed to the transport and its
\* deadline has expired; and when the deadline of an operation that is still
\* START or STREAMING has expired, the receiver is at a point from which it
\* takes the expiry (the top of its loop or a recv bounded by the deadline), so
\* that poll comes to return {id, ERROR, TIMEOUT}.
C11_TimeoutDiscipline ==
    /\ op.error = "SPEECH_TIMEOUT" =>
          op.id # 0 /\ op.timer = "expired" /\ FinalSent(op.id)
    /\ (op.id # 0 /\ op.timer = "expired" /\ op.status \in {"START", "STREAMING"}) =>
          receiverPc \in {"top", "recv_fin"}

\* a response with id rid is late for the operation o: the session of rid is
\* terminal, removed, or not the current one
C12_Late(o, rid) == o.id # rid \/ o.status \in {"END", "CANCELLED", "ERROR"}

\* C12. Late responses are dropped: a response whose id is not that of the
\* current operation, or whose operation is END, CANCELLED or ERROR, leaves
\* responses_ and the operation as they are and adds no poll result; and a
\* session cancelled before its terminal result gets no END result and no
\* result after its CANCELLED result.
C12_LateResponsesDropped ==
    /\ [][\A rid \in Ids, code \in ResultCodes, finish \in BOOLEAN :
            ( /\ \/ ReceiverResponse(rid, code, finish)
                 \/ ReceiverLateResponse(rid, code, finish)
              /\ C12_Late(op, rid) ) =>
                responses' = responses /\ op' = op /\ hist' = hist]_vars
    /\ [](\A id \in cancelEarly : \A i \in 1..Len(hist[id]) :
            /\ hist[id][i].type # "END"
            /\ hist[id][i].type = "CANCELLED" => i = Len(hist[id]))

\* C14. Single-slot assertion: the assert(op.get() == NULL) of do_ctl_change_op
\* never fails: the sender never takes a TEXT or VOICE_START request while the
\* controller holds an operation.
C14_SingleSlotAssert == "new_op" \notin assertFailed

C16_TerminalAbsorbing ==
    [][(op.id # 0 /\ op.status \in {"END", "CANCELLED", "ERROR"}) =>
          \/ op'.id = op.id /\ op'.status = op.status
          \/ op' = NoOp /\ hist' # hist]_vars

\* C18. Mass cancel: no START or VOICE message is handed to the transport for a
\* request that was in voice_reqs_ at a cancel(0) (the request the sender had
\* taken before the call may still be sent); the
\* operation the call found stays the current one, in status CANCELLED, until
\* poll returns a result, and that result is its CANCELLED result.
C18_MassCancel ==
    /\ \A id \in Ids : cancelMass[id] # -1 =>
          \A i \in 1..Len(sent[id]) :
              i > cancelMass[id] => sent[id][i].type \notin {"START", "VOICE"}
    /\ massOp.id # 0 =>
          IF Len(hist[massOp.id]) = massOp.n
          THEN op.id = massOp.id /\ op.status = "CANCELLED"
          ELSE hist[massOp.id][massOp.n + 1].type = "CANCELLED"

\* t waits at a lock statement for a mutex that u holds
WaitsFor(t, u) == t # u /\ Wants(t) # "none" /\ Holds(u, Wants(t))

\* C13. Lock ordering: no thread is at a lock of req_mutex_ with resp_mutex_
\* held; a thread that holds both locked req_mutex_ first; the sender holds no
\* req_mutex_ from the lock of resp_mutex_ before wait_op_finish on; poll holds
\* resp_mutex_ only; a thread waiting on a condition holds no mutex; and no two
\* threads wait for a mutex the other holds.
C13_LockOrdering ==
    /\ \A t \in Threads : Wants(t) = "req_mutex" => ~Holds(t, "resp_mutex")
    /\ \A t \in Threads : Len(held[t]) = 2 => held[t] = <<"req_mutex", "resp_mutex">>
    /\ at["send_reqs"].pc \in {"wait_lock", "wait_body", "wait_cond"} =>
          held["send_reqs"] \in {<<>>, <<"resp_mutex">>}
    /\ held["poller"] \in {<<>>, <<"resp_mutex">>}
    /\ \A t \in Threads : at[t].pc \in {"wait", "req_wait", "wait_cond"} => held[t] = <<>>
    /\ \A t, u \in Threads : ~(WaitsFor(t, u) /\ WaitsFor(u, t))

\* C13 witness: cancel() holds both mutexes while the sender waits at its lock of
\* req_mutex_ and poll waits at its lock of resp_mutex_
C13_Witness ==
    /\ \E c \in Callers : at[c].call = "cancel" /\ Len(held[c]) = 2
    /\ at["send_reqs"].pc = "top"
    /\ at["poller"].pc = "lock"

\* C17. Mutex coverage: a thread that reads or writes a shared object holds the
\* mutex of that object, and two threads that are at the same object hold a
\* common mutex.
C17_MutexCoverage ==
    /\ \A t \in Threads : \A x \in Touches(t) : Holds(t, GuardOf(x))
    /\ \A t, u \in Threads :
          (t # u /\ Touches(t) \cap Touches(u) # {}) =>
              \E m \in {"req_mutex", "resp_mutex"} : Holds(t, m) /\ Holds(u, m)

\* the entries of calls that onEvent appends in this step
NewCalls == {calls'[i] : i \in (Len(calls) + 1)..Len(calls')}

\* C19: Dispatcher session tracking.  onEvent handles the events in the order
\* they arrived; every start_voice is made in case VAD_START after session_id
\* was found < 0; every put_voice is made in case VAD_DATA for an event flagged
\* HAS_VOICE after session_id was found > 0, with that id; case VAD_END with
\* cloud-VAD disabled calls end_voice with the active session id and leaves
\* no active session; and between a start_voice that returned an id and the
\* next start_voice the session of that id was cleared.
C19_SessionTracking ==
    /\ [](onEventPc # "wait" => event.n = handled)
    /\ [](\A i \in 1..Len(calls) :
            /\ calls[i].fn = "start_voice" => calls[i].event = "VAD_START" /\ calls[i].tested < 0
            /\ calls[i].fn = "put_voice" =>
                  calls[i].event = "VAD_DATA" /\ calls[i].tested > 0 /\ calls[i].id = calls[i].tested
            /\ calls[i].fn = "end_voice" => calls[i].tested > 0 /\ calls[i].id = calls[i].tested)
    /\ [](onEventPc = "put_voice" => event.event = "VAD_DATA" /\ event.voice /\ tested > 0)
    /\ [][/\ (onEventPc = "switch" /\ onEventPc' # "switch" /\ event.event = "VAD_END" /\ ~cloud_vad) =>
               \/ session_id > 0 /\ onEventPc' = "end_voice"
               \/ session_id' < 0 /\ onEventPc' = "wait"
          /\ (onEventPc = "end_voice" /\ onEventPc' = "wait") =>
               /\ session_id' < 0
               /\ \E c \in NewCalls : c.fn = "end_voice" /\ c.id = tested
          /\ \A c \in NewCalls :
               c.fn \in {"put_voice", "end_voice"} => session_id > 0 /\ c.id = session_id]_vars
    /\ [](\A i, j \in 1..Len(calls) :
            (i < j /\ calls[i].fn = "start_voice" /\ calls[i].id > 0 /\ calls[j].fn = "start_voice") =>
               \E k \in (i + 1)..(j - 1) : calls[k].fn = "clear" /\ calls[k].id = calls[i].id)

\* C20: Dispatcher VAD_CANCEL.  Case VAD_CANCEL with an active session id and
\* asr_finished false calls cancel with that id; when the case is done there
\* is no active session id, cloud-VAD enabled or not; so a VAD_START handled
\* after the cancel finds no active session id.
C20_VadCancelClears ==
    /\ [][/\ (onEventPc = "switch" /\ onEventPc' # "switch" /\ event.event = "VAD_CANCEL"
              /\ session_id > 0 /\ ~asr_finished) =>
               onEventPc' = "cancel"
          /\ (onEventPc = "cancel" /\ onEventPc' = "wait") =>
               \E c \in NewCalls : c.fn = "cancel" /\ c.id = tested
          /\ (event.event = "VAD_CANCEL" /\ onEventPc # "wait" /\ onEventPc' = "wait") =>
               session_id' < 0]_vars
    /\ []((onEventPc = "switch" /\ event.event = "VAD_START" /\ calls # <<>>
            /\ calls[Len(calls)].fn = "cancel") => session_id < 0)

\* C22: whenever poll takes an entry from responses_, the id of the entry is
\* the id of the operation in the controller: the asserts id == op->id of
\* lines 212, 224 and 236 never fail, and responses_ never holds an entry of
\* an id other than the current operation's.
C22_PollIdMatchesOp ==
    /\ "pop_id" \notin assertFailed
    /\ "drain_id" \notin assertFailed
    /\ \A k \in 1..Len(responses.q) : op.id # 0 /\ responses.q[k].id = op.id

\* C23: cancelling one session never cancels another.  A cancel(id) with
\* id > 0 changes no operation but the one of that id, and when the sender
\* handles the CANCELLED request a cancel(id) left in the queues, the operation
\* that becomes CANCELLED is the operation of the id of that request.
C23_CancelIsolation ==
    [][/\ \A id \in Ids : (CancelOne(id) /\ op' # op) => op.id = id /\ op'.id = id
       /\ (SenderPop /\ SendReqsTake(voice_reqs, text_reqs).type = "CANCELLED" /\ op' # op) =>
            /\ op'.id = SendReqsTake(voice_reqs, text_reqs).id
            /\ op.id \in {0, op'.id}]_vars

\* the four callbacks that deliver a result
ResultCallbacks == {"intermediate_result", "voice_command", "voice_event_cancel", "speech_error"}

\* the callback, of the four, that delivers sr
Delivers ==
    IF sr.type = "INTER" THEN {"intermediate_result"}
    ELSE IF sr.type = "END" THEN {"voice_command"}
    ELSE IF sr.type = "CANCELLED" THEN {"voice_event_cancel"}
    ELSE IF sr.type = "ERROR" /\ sr.err # "SPEECH_SUCCESS" THEN {"speech_error"}
    ELSE {}

\* C21: Activation arbitration.  For each result of poll: when the activation
\* recorded for the session of the result is not "fake" or "reject", INTER is
\* delivered as intermediate_result, END as voice_command, CANCELLED as
\* voice_event(id, VOICE_CANCEL) and ERROR with err # SUCCESS as speech_error;
\* when it is "fake" or "reject" none of the four callbacks is made; a START
\* result leaves activation empty and asr_finished false; a result of type
\* >= END leaves no active session of its id.
C21_ActivationArbitration ==
    /\ [](sr.type # "NONE" =>
            callbacks \cap ResultCallbacks =
               (IF arbitration(verdict.activation) THEN {} ELSE Delivers))
    /\ [][\A id \in 1..MaxEvents : \A res \in PollResults(id) :
            OnResponse(res) =>
              /\ res.type = "START" => activation' = "" /\ ~asr_finished'
              /\ IsTerminalType(res.type) => session_id' # res.id]_vars

\* C24: the verdict of one session never suppresses the callbacks of another.
\* Whenever onResponse holds "fake" or "reject" for a result, results of the
\* session of that result carried it; and a CANCELLED or ERROR result of a
\* session whose results carried no activation (a session cancelled or failed
\* before its START result among them) is delivered.
C24_VerdictStaysInSession ==
    /\ (sr.type # "NONE" /\ arbitration(activation)) => verdict.activation = activation
    /\ (sr.type \in {"CANCELLED", "ERROR"} /\ verdict.activation = "") => Delivers \subseteq callbacks

====
